---------------------------- MODULE Spec2Model ----------------------------
(***************************************************************************)
(* InkTrust verification service: the session store of src/api/verify.js   *)
(* with its four handlers and the hourly sweep, and the analyzers they     *)
(* call (automation detector, behavior analyzer, fingerprint analyzer,     *)
(* network analyzer, decision aggregator).                                 *)
(*                                                                         *)
(* Representation of JavaScript values                                     *)
(*   string   a sequence of tokens (<<"Headless", "Chrome">>); includes()  *)
(*            is contiguous-subsequence search, toLowerCase() maps tokens  *)
(*   null     NullStr for string-valued fields, NullNum for numbers        *)
(*   object   a function from property names; a missing property is a     *)
(*            name outside its DOMAIN                                      *)
(*   score    the aggregator halves analyzer scores, so its running total  *)
(*            is kept doubled (Twice...) and halved only when compared     *)
(***************************************************************************)
EXTENDS Integers, Sequences, FiniteSets, TLC

VARIABLES
    sessions,      \* verify.js:14   the in-memory store, id -> session
    nextId,        \* verify.js:36   uuidv4(): ids are handed out fresh
    now,           \* Date.now()
    response,      \* the answer of the handler that ran last
    firstResult,   \* history: id -> result of the Evaluate that made it terminal
    behaviorRuns,  \* history: id -> number of analyzeBehavior calls made for it
    sdk            \* sdk.js:36     the state of an InkTrust instance and its requests

vars == <<sessions, nextId, now, response, firstResult, behaviorRuns, sdk>>

-----------------------------------------------------------------------------
(* JavaScript values *)

NullStr == <<"null">>
NullNum == 0 - 99999
NaN == 0 - 77777
EmptyObject == <<>>

TruthyStr(s) == s # NullStr /\ s # <<>>
TruthyNum(n) == n # NullNum /\ n # NaN /\ n # 0

If(c, x) == IF c THEN <<x>> ELSE <<>>

HasProp(obj, p) == p \in DOMAIN obj

\* headers[name]: undefined (NullStr here) when the header was not sent
Header(headers, name) == IF name \in DOMAIN headers THEN headers[name] ELSE NullStr

IncludesAt(s, k, i) == \A j \in 1..Len(k) : s[i + j - 1] = k[j]

\* String.prototype.includes
Includes(s, k) == \E i \in 1..(Len(s) - Len(k) + 1) : IncludesAt(s, k, i)

LowerToken(t) ==
    CASE t = "Chrome" -> "chrome"
      [] t = "Firefox" -> "firefox"
      [] t = "Safari" -> "safari"
      [] t = "Headless" -> "headless"
      [] t = "Selenium" -> "selenium"
      [] t = "Playwright" -> "playwright"
      [] t = "Puppeteer" -> "puppeteer"
      [] t = "Arial" -> "arial"
      [] t = "Verdana" -> "verdana"
      [] t = "Georgia" -> "georgia"
      [] t = "Win" -> "win"
      [] t = "Mac" -> "mac"
      [] t = "Linux" -> "linux"
      [] t = "XMLHttpRequest" -> "xmlhttprequest"
      [] OTHER -> t

\* String.prototype.toLowerCase
ToLowerCase(s) == [i \in 1..Len(s) |-> LowerToken(s[i])]

\* Array.prototype.join: the joined text, one token per element and separator
RECURSIVE Join(_, _)
Join(list, sep) ==
    IF list = <<>> THEN <<>>
    ELSE IF Len(list) = 1 THEN list[1]
    ELSE list[1] \o sep \o Join(Tail(list), sep)

\* Array.prototype.slice(-n)
SliceLast(list, n) ==
    IF Len(list) <= n THEN list ELSE SubSeq(list, Len(list) - n + 1, Len(list))

\* Array.prototype.slice(0, n)
Slice(list, n) == SubSeq(list, 1, IF Len(list) < n THEN Len(list) ELSE n)

Min(a, b) == IF a < b THEN a ELSE b
\* the second argument whatever the first: no lower limit
Unlimited(a, b) == b

Max(a, b) == IF a > b THEN a ELSE b

RECURSIVE SumSeq(_)
SumSeq(s) == IF s = <<>> THEN 0 ELSE s[1] + SumSeq(Tail(s))


\* String.prototype.split for a one-token separator
RECURSIVE Split(_, _)
Split(s, sep) ==
    IF \A i \in 1..Len(s) : s[i] # sep THEN <<s>>
    ELSE LET i == CHOOSE k \in 1..Len(s) : s[k] = sep /\ \A m \in 1..(k - 1) : s[m] # sep
         IN  <<SubSeq(s, 1, i - 1)>> \o Split(SubSeq(s, i + 1, Len(s)), sep)

NumeralValue ==
    [n \in {"0", "200", "300", "600", "768", "800", "1024", "1080", "1280",
            "1366", "1440", "1920", "2560", "5000"} |->
        CASE n = "0" -> 0 [] n = "200" -> 200 [] n = "300" -> 300 [] n = "600" -> 600
          [] n = "768" -> 768 [] n = "800" -> 800 [] n = "1024" -> 1024
          [] n = "1080" -> 1080 [] n = "1280" -> 1280 [] n = "1366" -> 1366
          [] n = "1440" -> 1440 [] n = "1920" -> 1920 [] n = "2560" -> 2560
          [] n = "5000" -> 5000]

\* Number(text): '' is 0, a numeral its value, anything else NaN
Number(text) ==
    IF text = <<>> THEN 0
    ELSE IF Len(text) = 1 /\ text[1] \in DOMAIN NumeralValue THEN NumeralValue[text[1]]
    ELSE NaN

\* const [width, height] = s.split('x').map(Number): a missing part is undefined
ParseResolution(s) ==
    LET parts == Split(s, "x")
    IN  [width  |-> Number(parts[1]),
         height |-> IF Len(parts) >= 2 THEN Number(parts[2]) ELSE NaN]

\* a < b on numbers, false as soon as one side is NaN or undefined
Less(a, b) == a # NaN /\ b # NaN /\ a < b

-----------------------------------------------------------------------------
(* Automation detector: src/unnamed/part_004, lines 486-992 *)

\* Bowser.parse(userAgent): browser and operating system names
BowserParse(userAgent) ==
    [browser |-> IF Includes(userAgent, <<"Chrome">>) THEN <<"Chrome">>
                 ELSE IF Includes(userAgent, <<"Firefox">>) THEN <<"Firefox">>
                 ELSE IF Includes(userAgent, <<"Safari">>) THEN <<"Safari">>
                 ELSE <<>>,
     os      |-> IF Includes(userAgent, <<"Win">>) THEN <<"Windows">>
                 ELSE IF Includes(userAgent, <<"Mac">>) THEN <<"macOS">>
                 ELSE IF Includes(userAgent, <<"Linux">>) THEN <<"Linux">>
                 ELSE <<>>]

\* deviceDetector.parse(userAgent): client and os are null when not recognised
DeviceDetectorParse(userAgent) ==
    [client |-> IF Includes(userAgent, <<"Headless", "Chrome">>) THEN <<"Headless", "Chrome">>
                ELSE IF Includes(userAgent, <<"Chrome">>) /\ Includes(userAgent, <<"Mobile">>)
                THEN <<"Chrome", "Mobile">>
                ELSE IF Includes(userAgent, <<"Chrome">>) THEN <<"Chrome">>
                ELSE IF Includes(userAgent, <<"Firefox">>) THEN <<"Firefox">>
                ELSE IF Includes(userAgent, <<"Safari">>) THEN <<"Safari">>
                ELSE NullStr,
     os     |-> IF Includes(userAgent, <<"Win">>) THEN <<"Windows">>
                ELSE IF Includes(userAgent, <<"Mac">>) THEN <<"Mac">>
                ELSE IF Includes(userAgent, <<"Linux">>) THEN <<"GNU/Linux">>
                ELSE NullStr]

seleniumProps ==
    {"__webdriver_evaluate", "__selenium_evaluate", "__webdriver_script_function",
     "__webdriver_script_func", "__webdriver_script_fn", "__fxdriver_evaluate",
     "__driver_unwrapped", "__webdriver_unwrapped", "__driver_evaluate",
     "__selenium_unwrapped", "__fxdriver_unwrapped", "_Selenium_IDE_Recorder",
     "_selenium", "calledSelenium", "_WEBDRIVER_ELEM_CACHE"}

seleniumWindowProps ==
    {"SeleniumWebDriverRequest", "_selenium", "selenium", "Selenium",
     "_Selenium_IDE_Recorder", "callSelenium"}

detectWebDriver(navigator) ==
    \/ HasProp(navigator, "webdriver") /\ navigator["webdriver"] = TRUE
    \/ \E prop \in seleniumProps : HasProp(navigator, prop)

detectSelenium(userAgent, navigator, window) ==
    IF ~TruthyStr(userAgent) THEN [detected |-> FALSE, score |-> 0, reasons |-> <<>>]
    ELSE
    LET inUA     == Includes(userAgent, <<"Selenium">>) \/ Includes(userAgent, <<"selenium">>)
        inWindow == \E prop \in seleniumWindowProps : HasProp(window, prop)
        cdc      == HasProp(window, "document")
                    /\ HasProp(window["document"], "$cdc_asdjflasutopfhvcZLmcfl_")
    IN  [detected |-> inUA \/ inWindow \/ cdc,
         score    |-> (IF inUA THEN 25 ELSE 0) + (IF inWindow THEN 20 ELSE 0)
                      + (IF cdc THEN 25 ELSE 0),
         reasons  |-> If(inUA, "selenium keyword in user agent")
                      \o If(inWindow, "selenium window property")
                      \o If(cdc, "chrome webdriver marker")]

detectPuppeteer(userAgent, navigator, window) ==
    IF ~TruthyStr(userAgent) THEN [detected |-> FALSE, score |-> 0, reasons |-> <<>>]
    ELSE
    LET headless  == Includes(userAgent, <<"Headless", "Chrome">>)
        noPlugins == HasProp(navigator, "plugins") /\ Len(navigator["plugins"]) = 0
        chrome    == HasProp(window, "chrome")
                     /\ (~HasProp(window["chrome"], "app")
                         \/ ~HasProp(window["chrome"], "runtime"))
        noLangs   == HasProp(navigator, "languages") /\ Len(navigator["languages"]) = 0
        score     == (IF headless THEN 30 ELSE 0) + (IF noPlugins THEN 10 ELSE 0)
                     + (IF chrome THEN 15 ELSE 0) + (IF noLangs THEN 10 ELSE 0)
    IN  [detected |-> headless \/ score >= 30,
         score    |-> score,
         reasons  |-> If(headless, "HeadlessChrome in user agent")
                      \o If(noPlugins, "zero plugins")
                      \o If(chrome, "incomplete chrome object")
                      \o If(noLangs, "empty language list")]

detectPlaywright(userAgent, navigator, window) ==
    IF ~TruthyStr(userAgent) THEN [detected |-> FALSE, score |-> 0, reasons |-> <<>>]
    ELSE
    LET perms == HasProp(navigator, "permissions")
                 /\ HasProp(navigator["permissions"], "query")
        inUA  == Includes(userAgent, <<"Playwright">>)
        webgl == HasProp(window, "WebGLRenderingContext")
        score == (IF perms THEN 10 ELSE 0) + (IF inUA THEN 30 ELSE 0)
                 + (IF webgl THEN 5 ELSE 0)
    IN  [detected |-> inUA \/ score >= 30,
         score    |-> score,
         reasons  |-> If(inUA, "Playwright in user agent")]

getPlatformOS(platform) ==
    LET p == ToLowerCase(platform)
    IN  IF Includes(p, <<"win">>) THEN <<"Windows">>
        ELSE IF Includes(p, <<"mac">>) THEN <<"macOS">>
        ELSE IF Includes(p, <<"linux">>) \/ Includes(p, <<"x11">>) THEN <<"Linux">>
        ELSE IF Includes(p, <<"android">>) THEN <<"Android">>
        ELSE IF Includes(p, <<"iphone">>) \/ Includes(p, <<"ipad">>) THEN <<"iOS">>
        ELSE NullStr

\* 'en-US,en;q=0.9'.split(',')[0].trim().split('-')[0]
PrimaryLanguage(s) == Split(Split(s, ",")[1], "-")[1]

detectBrowserInconsistency(userAgent, headers, navigator) ==
    IF ~TruthyStr(userAgent) THEN [detected |-> FALSE, score |-> 0, reasons |-> <<>>]
    ELSE
    LET parsedUA   == BowserParse(userAgent)
        deviceInfo == DeviceDetectorParse(userAgent)
        browser    == deviceInfo.client # NullStr /\ parsedUA.browser # deviceInfo.client
        os         == deviceInfo.os # NullStr /\ parsedUA.os # deviceInfo.os
        platform   == HasProp(navigator, "platform") /\ TruthyStr(navigator["platform"])
                      /\ getPlatformOS(navigator["platform"]) # NullStr
                      /\ ToLowerCase(parsedUA.os)
                           # ToLowerCase(getPlatformOS(navigator["platform"]))
        language   == TruthyStr(Header(headers, "accept-language"))
                      /\ HasProp(navigator, "language") /\ TruthyStr(navigator["language"])
                      /\ PrimaryLanguage(Header(headers, "accept-language"))
                           # Split(navigator["language"], "-")[1]
    IN  [detected |-> browser \/ os \/ platform \/ language,
         score    |-> (IF browser THEN 15 ELSE 0) + (IF os THEN 15 ELSE 0)
                      + (IF platform THEN 20 ELSE 0) + (IF language THEN 10 ELSE 0),
         reasons  |-> If(browser, "browser name mismatch") \o If(os, "os name mismatch")
                      \o If(platform, "platform mismatch")
                      \o If(language, "language mismatch")]

commonAutomatedSizes ==
    {<<"800", "x", "600">>, <<"1024", "x", "768">>, <<"1280", "x", "800">>,
     <<"1366", "x", "768">>, <<"1920", "x", "1080">>}

detectAbnormalScreenSize(clientInfo) ==
    /\ TruthyStr(clientInfo.screenResolution)
    /\ LET r == ParseResolution(clientInfo.screenResolution)
           w == r.width
           h == r.height
       IN  \/ clientInfo.screenResolution \in commonAutomatedSizes
           \/ w # NaN /\ h # NaN /\ h > 0 /\ (w < h \/ w > 3 * h)   \* ratio < 1 || ratio > 3
           \/ w # NaN /\ h = 0 /\ w > 0                            \* ratio is Infinity
           \/ Less(w, 500) \/ Less(h, 500)

commonAutomatedTimezones == {<<"UTC">>, <<"GMT">>, <<"Etc/", "GMT">>, <<"Etc/", "UTC">>}

detectAbnormalTimezone(clientInfo) ==
    TruthyStr(clientInfo.timezone) /\ clientInfo.timezone \in commonAutomatedTimezones

detectAbnormalPluginCount(navigator) ==
    HasProp(navigator, "plugins") /\ Len(navigator["plugins"]) < 2

detectAbnormalHardwareConcurrency(navigator) ==
    HasProp(navigator, "hardwareConcurrency") /\ navigator["hardwareConcurrency"] <= 2

detectAbnormalLanguage(navigator, headers) ==
    \/ HasProp(navigator, "languages") /\ Len(navigator["languages"]) = 0
    \/ ~TruthyStr(Header(headers, "accept-language"))

checkUserAgentConsistency(userAgent, headers) ==
    IF ~TruthyStr(userAgent) THEN TRUE
    ELSE ~(TruthyStr(Header(headers, "user-agent")) /\ Header(headers, "user-agent") # userAgent)

\* const { navigator = {}, window = {} } = clientInfo
Destructure(obj, field) == IF field \in DOMAIN obj THEN obj[field] ELSE EmptyObject

\* the limit of the rejection at creation, taken for the limit of detection
ScoreAboveRejection(total) == total > 80

\* if (result.automationScore >= 50 && !result.isAutomated)
ScoreMeansAutomation(total) == total >= 50

\* an automated verdict by the total that names nothing
Unnamed(definitive, total) == <<>>

\* if (automationScore >= 50 && !isAutomated) detectedTools.push('Unknown Automation')
UnknownTool(definitive, total) ==
    If(~definitive /\ ScoreMeansAutomation(total), "Unknown Automation")

detectAutomation(clientInfo) ==
    LET userAgent  == clientInfo.userAgent
        headers    == clientInfo.headers
        navigator  == Destructure(clientInfo, "navigator")
        window     == Destructure(clientInfo, "window")
        webdriver  == detectWebDriver(navigator)
        selenium   == detectSelenium(userAgent, navigator, window)
        puppeteer  == detectPuppeteer(userAgent, navigator, window)
        playwright == detectPlaywright(userAgent, navigator, window)
        browser    == detectBrowserInconsistency(userAgent, headers, navigator)
        screen     == detectAbnormalScreenSize(clientInfo)
        timezone   == detectAbnormalTimezone(clientInfo)
        plugins    == detectAbnormalPluginCount(navigator)
        hardware   == detectAbnormalHardwareConcurrency(navigator)
        language   == detectAbnormalLanguage(navigator, headers)
        uaDiffers  == ~checkUserAgentConsistency(userAgent, headers)
        definitive == webdriver \/ selenium.detected \/ puppeteer.detected
                      \/ playwright.detected
        total      == (IF webdriver THEN 30 ELSE 0)
                      + (IF selenium.detected THEN selenium.score ELSE 0)
                      + (IF puppeteer.detected THEN puppeteer.score ELSE 0)
                      + (IF playwright.detected THEN playwright.score ELSE 0)
                      + (IF browser.detected THEN browser.score ELSE 0)
                      + (IF screen THEN 10 ELSE 0)
                      + (IF timezone THEN 10 ELSE 0)
                      + (IF plugins THEN 15 ELSE 0)
                      + (IF hardware THEN 10 ELSE 0)
                      + (IF language THEN 5 ELSE 0)
                      + (IF uaDiffers THEN 20 ELSE 0)
    IN  [isAutomated     |-> definitive \/ ScoreMeansAutomation(total),
         automationScore |-> Min(total, 100),
         detectedTools   |-> If(webdriver, "WebDriver")
                             \o If(selenium.detected, "Selenium")
                             \o If(puppeteer.detected, "Puppeteer")
                             \o If(playwright.detected, "Playwright")
                             \o UnknownTool(definitive, total),
         reasons         |-> If(webdriver, "WebDriver API detected")
                             \o (IF selenium.detected THEN selenium.reasons ELSE <<>>)
                             \o (IF puppeteer.detected THEN puppeteer.reasons ELSE <<>>)
                             \o (IF playwright.detected THEN playwright.reasons ELSE <<>>)
                             \o (IF browser.detected THEN browser.reasons ELSE <<>>)
                             \o If(screen, "abnormal screen size")
                             \o If(timezone, "abnormal timezone")
                             \o If(plugins, "abnormal plugin count")
                             \o If(hardware, "abnormal hardware concurrency")
                             \o If(language, "abnormal language")
                             \o If(uaDiffers, "user agent inconsistent")]

-----------------------------------------------------------------------------
(* Fingerprint analyzer: src/unnamed/part_003 *)

\* text.length in characters, for the tokens used as fingerprint material
TokenLength(t) ==
    CASE t = "canvas-64" -> 64
      [] t = "canvas-20" -> 20
      [] t = "0000000000000000000000000000000000000000" -> 40
      [] t = "f995d7d9444e4ee6a1f4063baae68d9d1a12b5f0" -> 40
      [] t = "webgl-64" -> 64
      [] t = "webgl-20" -> 20
      [] t = "audio-16" -> 16
      [] t = "audio-4" -> 4
      [] t = "0000000000" -> 10
      [] t = "1234567890" -> 10
      [] OTHER -> 1

RECURSIVE Length(_)
Length(s) == IF s = <<>> THEN 0 ELSE TokenLength(s[1]) + Length(Tail(s))

OrStr(v, default) == IF TruthyStr(v) THEN v ELSE default
OrNum(v, default) == IF TruthyNum(v) THEN v ELSE default

extractFingerprintComponents(clientInfo) ==
    [userAgent           |-> OrStr(clientInfo.userAgent, <<>>),
     language            |-> OrStr(clientInfo.language, <<>>),
     colorDepth          |-> clientInfo.colorDepth,      \* number, or '' for a missing one
     screenResolution    |-> OrStr(clientInfo.screenResolution, <<>>),
     timezone            |-> OrStr(clientInfo.timezone, <<>>),
     timezoneOffset      |-> OrNum(clientInfo.timezoneOffset, NullNum),
     platform            |-> OrStr(clientInfo.platform, <<>>),
     plugins             |-> OrStr(clientInfo.plugins, <<>>),
     canvasFingerprint   |-> OrStr(clientInfo.canvasFingerprint, NullStr),
     webglFingerprint    |-> OrStr(clientInfo.webglFingerprint, NullStr),
     webglVendor         |-> OrStr(clientInfo.webglVendor, <<>>),
     webglRenderer       |-> OrStr(clientInfo.webglRenderer, <<>>),
     audioFingerprint    |-> OrStr(clientInfo.audioFingerprint, NullStr),
     fonts               |-> clientInfo.fonts,           \* array, [] for a missing one
     touchSupport        |-> clientInfo.touchSupport,
     maxTouchPoints      |-> OrNum(clientInfo.maxTouchPoints, 0),
     hardwareConcurrency |-> OrNum(clientInfo.hardwareConcurrency, NullNum),
     deviceMemory        |-> OrNum(clientInfo.deviceMemory, NullNum),
     pixelRatio          |-> OrNum(clientInfo.pixelRatio, NullNum)]

\* CryptoJS.SHA256(JSON.stringify(components)).toString(): the digest stands for
\* the serialised text, which lists every property with its value in a fixed order
generateFingerprintHash(components) ==
    [sha256 |-> <<components.userAgent, components.language, components.colorDepth,
                  components.screenResolution, components.timezone,
                  components.timezoneOffset, components.platform, components.plugins,
                  components.canvasFingerprint, components.webglFingerprint,
                  components.webglVendor, components.webglRenderer,
                  components.audioFingerprint, components.fonts,
                  components.touchSupport, components.maxTouchPoints,
                  components.hardwareConcurrency, components.deviceMemory,
                  components.pixelRatio>>]

knownAutomatedCanvasFingerprints ==
    {<<"0000000000000000000000000000000000000000">>,
     <<"f995d7d9444e4ee6a1f4063baae68d9d1a12b5f0">>}

analyzeCanvasFingerprint(canvasFingerprint) ==
    LET short == Length(canvasFingerprint) < 50
        known == canvasFingerprint \in knownAutomatedCanvasFingerprints
    IN  [score     |-> (IF short THEN 0 - 10 ELSE 10) + (IF known THEN 0 - 20 ELSE 0),
         anomalies |-> If(short, "canvas fingerprint length")
                       \o If(known, "known automated canvas fingerprint")]

automatedWebGLVendors ==
    {<<"Brian Paul">>, <<"Mesa">>, <<"Google Inc.">>, <<"Google", "SwiftShader">>}

automatedWebGLRenderers ==
    {<<"Mesa", "OffScreen">>, <<"Google", "SwiftShader">>, <<"llvmpipe">>,
     <<"Software Rasterizer">>, <<"ANGLE">>}

analyzeWebGLFingerprint(webglFingerprint, webglVendor, webglRenderer) ==
    LET short    == Length(webglFingerprint) < 50
        both     == TruthyStr(webglVendor) /\ TruthyStr(webglRenderer)
        vendor   == both /\ \E v \in automatedWebGLVendors : Includes(webglVendor, v)
        renderer == both /\ \E r \in automatedWebGLRenderers : Includes(webglRenderer, r)
    IN  [score     |-> (IF short THEN 0 - 10 ELSE 10) + (IF vendor THEN 0 - 15 ELSE 0)
                       + (IF renderer THEN 0 - 15 ELSE 0) + (IF both THEN 0 ELSE 0 - 10),
         anomalies |-> If(short, "webgl fingerprint length")
                       \o If(vendor, "suspicious webgl vendor")
                       \o If(renderer, "suspicious webgl renderer")
                       \o If(~both, "missing webgl vendor or renderer")]

knownAutomatedAudioFingerprints == {<<"0000000000">>, <<"1234567890">>}

analyzeAudioFingerprint(audioFingerprint) ==
    LET short == Length(audioFingerprint) < 10
        known == audioFingerprint \in knownAutomatedAudioFingerprints
    IN  [score     |-> (IF short THEN 0 - 5 ELSE 5) + (IF known THEN 0 - 10 ELSE 0),
         anomalies |-> If(short, "audio fingerprint length")
                       \o If(known, "known automated audio fingerprint")]

commonFonts ==
    {<<"Arial">>, <<"Times New Roman">>, <<"Courier New">>, <<"Verdana">>, <<"Georgia">>}

analyzeFonts(fonts) ==
    LET n      == Len(fonts)
        few    == n < 5
        common == \E font \in commonFonts : \E i \in 1..n :
                      Includes(ToLowerCase(fonts[i]), ToLowerCase(font))
    IN  [score     |-> (IF few THEN 0 - 10
                        ELSE IF n > 5 /\ n < 20 THEN 5
                        ELSE IF n >= 20 THEN 10 ELSE 0)
                       + (IF common THEN 5 ELSE 0 - 5),
         anomalies |-> If(few, "very few fonts") \o If(~common, "no common font")]

\* plugins.split(',').map(p => p.trim()).filter(p => p)
PluginArray(plugins) == SelectSeq(Split(plugins, ","), LAMBDA part : part # <<>>)

analyzePlugins(plugins) ==
    LET n == Len(PluginArray(plugins))
    IN  [score     |-> IF n = 0 THEN 0 - 10 ELSE IF n < 3 THEN 0 - 5 ELSE 5,
         anomalies |-> If(n = 0, "no plugins") \o If(n > 0 /\ n < 3, "very few plugins")]

analyzeScreenInfo(screenResolution, colorDepth, pixelRatio) ==
    LET r     == ParseResolution(screenResolution)
        small == Less(r.width, 320) \/ Less(r.height, 240)
        sane  == ~small /\ r.width # NaN /\ r.height # NaN
                 /\ r.width >= 320 /\ r.height >= 240
        noDepth  == ~TruthyNum(colorDepth)
        lowDepth == ~noDepth /\ colorDepth < 24
        noRatio  == ~TruthyNum(pixelRatio)
        badRatio == ~noRatio /\ (pixelRatio < 1 \/ pixelRatio > 5)
    IN  [score     |-> (IF small THEN 0 - 10 ELSE IF sane THEN 5 ELSE 0)
                       + (IF noDepth THEN 0 ELSE IF lowDepth THEN 0 - 5 ELSE 5)
                       + (IF noRatio THEN 0 ELSE IF badRatio THEN 0 - 5 ELSE 5),
         anomalies |-> If(small, "screen too small")
                       \o If(noDepth, "missing color depth")
                       \o If(lowDepth, "low color depth")
                       \o If(noRatio, "missing pixel ratio")
                       \o If(badRatio, "abnormal pixel ratio")]

analyzeHardwareInfo(hardwareConcurrency, deviceMemory) ==
    LET noCpu  == hardwareConcurrency = NullNum
        lowCpu == ~noCpu /\ hardwareConcurrency < 2
        bigCpu == ~noCpu /\ hardwareConcurrency > 16
        noMem  == deviceMemory = NullNum
        lowMem == ~noMem /\ deviceMemory < 2
        bigMem == ~noMem /\ deviceMemory > 32
    IN  [score     |-> (IF noCpu THEN 0 ELSE IF lowCpu \/ bigCpu THEN 0 - 5 ELSE 5)
                       + (IF noMem THEN 0 ELSE IF lowMem \/ bigMem THEN 0 - 5 ELSE 5),
         anomalies |-> If(noCpu, "missing hardware concurrency")
                       \o If(lowCpu, "low hardware concurrency")
                       \o If(bigCpu, "high hardware concurrency")
                       \o If(noMem, "missing device memory")
                       \o If(lowMem, "low device memory")
                       \o If(bigMem, "high device memory")]

Abs(n) == IF n < 0 THEN 0 - n ELSE n

\* null when the timezone is not in the table
getExpectedTimezoneOffset(timezone) ==
    CASE timezone = <<"America/", "New_York">> -> 0 - 300
      [] timezone = <<"America/", "Chicago">> -> 0 - 360
      [] timezone = <<"America/", "Denver">> -> 0 - 420
      [] timezone = <<"America/", "Los_Angeles">> -> 0 - 480
      [] timezone = <<"Europe/", "London">> -> 0
      [] timezone = <<"Europe/", "Berlin">> -> 60
      [] timezone = <<"Europe/", "Moscow">> -> 180
      [] timezone = <<"Asia/", "Tokyo">> -> 540
      [] timezone = <<"Asia/", "Shanghai">> -> 480
      [] timezone = <<"Australia/", "Sydney">> -> 600
      [] OTHER -> NullNum

analyzeTimezone(timezone, timezoneOffset) ==
    LET generic  == timezone = <<"UTC">> \/ timezone = <<"GMT">>
                    \/ (Len(timezone) >= 2 /\ SubSeq(timezone, 1, 2) = <<"Etc/", "GMT">>)
        noOffset == timezoneOffset = NullNum
        expected == getExpectedTimezoneOffset(timezone)
        mismatch == ~noOffset /\ expected # NullNum
                    /\ Abs(timezoneOffset - expected) > 60
    IN  [score     |-> (IF generic THEN 0 - 5 ELSE 5)
                       + (IF noOffset THEN 0 ELSE IF mismatch THEN 0 - 10 ELSE 5),
         anomalies |-> If(generic, "generic timezone")
                       \o If(noOffset, "missing timezone offset")
                       \o If(mismatch, "timezone offset mismatch")]

analyzeTouchSupport(touchSupport, maxTouchPoints) ==
    LET bad == (touchSupport /\ maxTouchPoints = 0) \/ (~touchSupport /\ maxTouchPoints > 0)
    IN  [score     |-> IF bad THEN 0 - 5 ELSE 5,
         anomalies |-> If(bad, "touch support inconsistent")]

NoAnalysis == [score |-> 0, anomalies |-> <<>>]

analyzeFingerprint(clientInfo) ==
    LET c        == extractFingerprintComponents(clientInfo)
        canvas   == IF TruthyStr(c.canvasFingerprint)
                    THEN analyzeCanvasFingerprint(c.canvasFingerprint)
                    ELSE [score |-> 0 - 15, anomalies |-> <<"missing canvas fingerprint">>]
        webgl    == IF TruthyStr(c.webglFingerprint)
                    THEN analyzeWebGLFingerprint(c.webglFingerprint, c.webglVendor,
                                                 c.webglRenderer)
                    ELSE [score |-> 0 - 15, anomalies |-> <<"missing webgl fingerprint">>]
        audio    == IF TruthyStr(c.audioFingerprint)
                    THEN analyzeAudioFingerprint(c.audioFingerprint) ELSE NoAnalysis
        fonts    == IF Len(c.fonts) > 0 THEN analyzeFonts(c.fonts)
                    ELSE [score |-> 0 - 10, anomalies |-> <<"missing fonts">>]
        plugins  == IF TruthyStr(c.plugins) THEN analyzePlugins(c.plugins)
                    ELSE [score |-> 0 - 10, anomalies |-> <<"missing plugins">>]
        screen   == IF TruthyStr(c.screenResolution)
                    THEN analyzeScreenInfo(c.screenResolution, c.colorDepth, c.pixelRatio)
                    ELSE NoAnalysis
        hardware == IF c.hardwareConcurrency # NullNum \/ c.deviceMemory # NullNum
                    THEN analyzeHardwareInfo(c.hardwareConcurrency, c.deviceMemory)
                    ELSE NoAnalysis
        timezone == IF TruthyStr(c.timezone) THEN analyzeTimezone(c.timezone, c.timezoneOffset)
                    ELSE NoAnalysis
        touch    == analyzeTouchSupport(c.touchSupport, c.maxTouchPoints)
        total    == canvas.score + webgl.score + audio.score + fonts.score + plugins.score
                    + screen.score + hardware.score + timezone.score + touch.score
    IN  [score       |-> Max(0, Min(100, total + 50)),
         fingerprint |-> generateFingerprintHash(c),
         anomalies   |-> canvas.anomalies \o webgl.anomalies \o audio.anomalies
                         \o fonts.anomalies \o plugins.anomalies \o screen.anomalies
                         \o hardware.anomalies \o timezone.anomalies \o touch.anomalies]

-----------------------------------------------------------------------------
(* Network analyzer: src/unnamed/part_004, lines 994-1474 *)

\* the dotted quad of an IPv4 text; <<>> when ipaddr.parse(ip) throws
Octets(ip) ==
    CASE ip = <<"127.0.0.1">> -> <<127, 0, 0, 1>>
      [] ip = <<"192.168.1.5">> -> <<192, 168, 1, 5>>
      [] ip = <<"10.0.0.7">> -> <<10, 0, 0, 7>>
      [] ip = <<"8.8.8.8">> -> <<8, 8, 8, 8>>
      [] ip = <<"81.2.69.142">> -> <<81, 2, 69, 142>>
      [] ip = <<"203.0.113.9">> -> <<203, 0, 113, 9>>
      [] ip = <<"52.1.2.3">> -> <<52, 1, 2, 3>>
      [] ip = <<"5.254.0.1">> -> <<5, 254, 0, 1>>
      [] OTHER -> <<>>

\* ipObj.compare(other) <= 0 on the four octets
QuadLeq(a, b) ==
    \/ a = b
    \/ \E i \in 1..4 : a[i] < b[i] /\ \A j \in 1..(i - 1) : a[j] = b[j]

InRange(ip, range) ==
    Octets(ip) # <<>> /\ QuadLeq(range[1], Octets(ip)) /\ QuadLeq(Octets(ip), range[2])

\* addr.range() of ipaddr.js for an IPv4 address
IpRange(ip) ==
    LET q == Octets(ip)
    IN  IF q[1] = 127 THEN "loopback"
        ELSE IF q[1] = 10 \/ (q[1] = 192 /\ q[2] = 168)
                \/ (q[1] = 172 /\ q[2] >= 16 /\ q[2] <= 31) THEN "private"
        ELSE IF q[1] = 203 /\ q[2] = 0 /\ q[3] = 113 THEN "reserved"
        ELSE "unicast"

isPrivateIP(ip) ==
    IF Octets(ip) = <<>> THEN ip = <<"::1">>     \* the parse throws: catch returns false
    ELSE IpRange(ip) \in {"private", "loopback"} \/ ip = <<"127.0.0.1">>

\* geoip.lookup(ip): the country code, null when the database has no entry
GeoLookup(ip) ==
    CASE ip = <<"8.8.8.8">> -> <<"US">>
      [] ip = <<"81.2.69.142">> -> <<"GB">>
      [] ip = <<"52.1.2.3">> -> <<"US">>
      [] ip = <<"5.254.0.1">> -> <<"RO">>
      [] OTHER -> NullStr

\* String.prototype.trim: the blanks at both ends are dropped
RECURSIVE Trim(_)
Trim(s) ==
    IF s = <<>> THEN s
    ELSE IF s[1] = " " THEN Trim(Tail(s))
    ELSE IF s[Len(s)] = " " THEN Trim(SubSeq(s, 1, Len(s) - 1))
    ELSE s

\* the address of the connection, whatever the headers say
ConnectionAddress(req) ==
    IF TruthyStr(req.remoteAddress) THEN req.remoteAddress ELSE NullStr

getClientIp(req) ==
    IF TruthyStr(Header(req.headers, "x-forwarded-for"))
    THEN Trim(Split(Header(req.headers, "x-forwarded-for"), ",")[1])
    ELSE IF TruthyStr(Header(req.headers, "x-real-ip"))
    THEN Header(req.headers, "x-real-ip")
    ELSE IF TruthyStr(req.remoteAddress) THEN req.remoteAddress
    ELSE NullStr

getExpectedTimezones(countryCode) ==
    CASE countryCode = <<"US">> -> {<<"America/">>}
      [] countryCode = <<"CA">> -> {<<"America/">>}
      [] countryCode = <<"GB">> -> {<<"Europe/", "London">>}
      [] countryCode = <<"DE">> -> {<<"Europe/", "Berlin">>}
      [] countryCode = <<"FR">> -> {<<"Europe/", "Paris">>}
      [] countryCode = <<"JP">> -> {<<"Asia/", "Tokyo">>}
      [] countryCode = <<"CN">> -> {<<"Asia/", "Shanghai">>, <<"Asia/", "Chongqing">>,
                                    <<"Asia/", "Harbin">>, <<"Asia/", "Urumqi">>}
      [] countryCode = <<"IN">> -> {<<"Asia/", "Kolkata">>}
      [] countryCode = <<"AU">> -> {<<"Australia/">>}
      [] countryCode = <<"RU">> -> {<<"Europe/", "Moscow">>, <<"Asia/">>}
      [] OTHER -> {}

checkIpTimezoneMatch(geoData, timezone) ==
    \/ geoData = NullStr \/ ~TruthyStr(timezone)
    \/ getExpectedTimezones(geoData) = {}
    \/ \E tz \in getExpectedTimezones(geoData) : Includes(timezone, tz)

getExpectedLanguages(countryCode) ==
    CASE countryCode = <<"US">> -> {<<"en">>}
      [] countryCode = <<"CA">> -> {<<"en">>, <<"fr">>}
      [] countryCode = <<"GB">> -> {<<"en">>}
      [] countryCode = <<"DE">> -> {<<"de">>}
      [] countryCode = <<"FR">> -> {<<"fr">>}
      [] countryCode = <<"JP">> -> {<<"ja">>}
      [] countryCode = <<"CN">> -> {<<"zh">>}
      [] countryCode = <<"IN">> -> {<<"hi">>, <<"en">>}
      [] countryCode = <<"AU">> -> {<<"en">>}
      [] countryCode = <<"RU">> -> {<<"ru">>}
      [] OTHER -> {}

checkIpLanguageMatch(geoData, language) ==
    \/ geoData = NullStr \/ ~TruthyStr(language)
    \/ getExpectedLanguages(geoData) = {}
    \/ ToLowerCase(Split(language, "-")[1]) \in getExpectedLanguages(geoData)

proxyHeaders ==
    <<"via", "forwarded", "x-forwarded-for", "x-forwarded-host", "x-forwarded-proto",
      "x-real-ip", "proxy-connection", "proxy-authenticate", "x-proxy-id",
      "proxy-authorization">>

checkProxyHeaders(headers) ==
    LET found == SelectSeq(proxyHeaders, LAMBDA h : TruthyStr(Header(headers, h)))
        cf    == TruthyStr(Header(headers, "cf-connecting-ip"))
                 \/ TruthyStr(Header(headers, "cf-ipcountry"))
    IN  [detected |-> found # <<>> \/ cf,
         reasons  |-> found \o If(cf, "cloudflare")]

dataCenterRanges ==
    {<<<<3, 0, 0, 0>>, <<3, 255, 255, 255>>>>,
     <<<<13, 32, 0, 0>>, <<13, 35, 255, 255>>>>,
     <<<<13, 224, 0, 0>>, <<13, 255, 255, 255>>>>,
     <<<<52, 0, 0, 0>>, <<52, 255, 255, 255>>>>,
     <<<<54, 0, 0, 0>>, <<54, 255, 255, 255>>>>,
     <<<<34, 64, 0, 0>>, <<34, 127, 255, 255>>>>,
     <<<<35, 184, 0, 0>>, <<35, 239, 255, 255>>>>,
     <<<<13, 64, 0, 0>>, <<13, 107, 255, 255>>>>,
     <<<<40, 64, 0, 0>>, <<40, 127, 255, 255>>>>,
     <<<<45, 55, 0, 0>>, <<45, 55, 255, 255>>>>,
     <<<<104, 131, 0, 0>>, <<104, 131, 255, 255>>>>,
     <<<<138, 197, 0, 0>>, <<138, 197, 255, 255>>>>,
     <<<<45, 33, 0, 0>>, <<45, 33, 255, 255>>>>,
     <<<<96, 126, 96, 0>>, <<96, 126, 127, 255>>>>,
     <<<<173, 255, 192, 0>>, <<173, 255, 255, 255>>>>}

checkDatacenterIP(ip) == \E range \in dataCenterRanges : InRange(ip, range)

vpnRanges ==
    {<<<<5, 254, 0, 0>>, <<5, 254, 255, 255>>>>,
     <<<<31, 13, 191, 0>>, <<31, 13, 191, 255>>>>,
     <<<<172, 241, 131, 0>>, <<172, 241, 131, 255>>>>,
     <<<<185, 159, 157, 0>>, <<185, 159, 157, 255>>>>}

checkVPN(ip) == \E range \in vpnRanges : InRange(ip, range)

ClaimsBrowser(userAgent) ==
    LET ua == ToLowerCase(userAgent)
    IN  Includes(ua, <<"chrome">>) \/ Includes(ua, <<"firefox">>) \/ Includes(ua, <<"safari">>)

checkHeaderConsistency(headers) ==
    LET accept   == Header(headers, "accept")
        language == Header(headers, "accept-language")
        ua       == Header(headers, "user-agent")
        api      == TruthyStr(accept) /\ TruthyStr(language)
                    /\ Includes(accept, <<"application/json">>)
                    /\ ~Includes(accept, <<"text/html">>)
        noHtml   == TruthyStr(ua) /\ TruthyStr(accept) /\ ClaimsBrowser(ua)
                    /\ ~Includes(accept, <<"text/html">>)
        noLang   == TruthyStr(ua) /\ TruthyStr(language) /\ ClaimsBrowser(ua)
                    /\ ~TruthyStr(language)
    IN  [consistent |-> ~(api \/ noHtml \/ noLang),
         reasons    |-> If(api, "accept is not a browser's")
                        \o If(noHtml, "user agent and accept disagree")
                        \o If(noLang, "user agent and accept-language disagree")]

insecureCiphers ==
    {<<"TLS_RSA_WITH_RC4_128_SHA">>, <<"TLS_RSA_WITH_RC4_128_MD5">>,
     <<"TLS_RSA_WITH_DES_CBC_SHA">>, <<"TLS_RSA_EXPORT_WITH_RC4_40_MD5">>,
     <<"TLS_RSA_EXPORT_WITH_DES40_CBC_SHA">>}

checkTLSFingerprint(cipher) ==
    If(cipher.name \in insecureCiphers, "insecure cipher suite")
    \o If(cipher.version \in {<<"TLSv1">>, <<"SSLv3">>}, "obsolete TLS version")

\* a lookup without result that leaves the score alone
NeutralLookup(geoData) == 0

\* if (!geoData) { ...; result.score -= 10; }
LookupDelta(geoData) == IF geoData = NullStr THEN 0 - 10 ELSE 0

analyzeNetwork(clientInfo, req) ==
    LET ip == getClientIp(req)
        blank == [score |-> 0, reasons |-> <<>>, ipInfo |-> NullStr, proxied |-> FALSE,
                  vpnDetected |-> FALSE, datacenterIP |-> FALSE, ipTimezoneMatch |-> TRUE]
    IN
    IF ~TruthyStr(ip)
    THEN [blank EXCEPT !.reasons = <<"no ip address">>]
    ELSE IF isPrivateIP(ip)
    THEN [blank EXCEPT !.reasons = <<"private ip address">>, !.score = 10]
    ELSE
    LET geoData    == GeoLookup(ip)
        tzChecked  == geoData # NullStr /\ TruthyStr(clientInfo.timezone)
        tzMatch    == checkIpTimezoneMatch(geoData, clientInfo.timezone)
        langChecked == geoData # NullStr /\ TruthyStr(clientInfo.language)
        langMatch  == checkIpLanguageMatch(geoData, clientInfo.language)
        proxy      == checkProxyHeaders(req.headers)
        datacenter == checkDatacenterIP(ip)
        vpn        == checkVPN(ip)
        consistency == checkHeaderConsistency(req.headers)
        tls        == IF req.cipher.present THEN checkTLSFingerprint(req.cipher) ELSE <<>>
        total      == LookupDelta(geoData)
                      + (IF tzChecked THEN (IF tzMatch THEN 20 ELSE 0 - 20) ELSE 0)
                      + (IF langChecked THEN (IF langMatch THEN 10 ELSE 0 - 10) ELSE 0)
                      + (IF proxy.detected THEN 0 - 30 ELSE 0)
                      + (IF datacenter THEN 0 - 40 ELSE 0)
                      + (IF vpn THEN 0 - 20 ELSE 0)
                      + (IF consistency.consistent THEN 15 ELSE 0 - 15)
                      + (IF req.cipher.present THEN (IF tls # <<>> THEN 0 - 10 ELSE 10)
                         ELSE 0)
    IN  [score           |-> Max(0, Min(100, total + 50)),
         reasons         |-> If(geoData = NullStr, "no geolocation for the ip")
                             \o If(tzChecked /\ ~tzMatch, "ip and timezone disagree")
                             \o If(langChecked /\ ~langMatch, "ip and language disagree")
                             \o If(proxy.detected, "proxy headers")
                             \o If(datacenter, "datacenter ip")
                             \o If(vpn, "vpn")
                             \o If(~consistency.consistent, "inconsistent headers")
                             \o If(tls # <<>>, "tls fingerprint"),
         ipInfo          |-> geoData,
         proxied         |-> proxy.detected,
         vpnDetected     |-> vpn,
         datacenterIP    |-> datacenter,
         ipTimezoneMatch |-> IF tzChecked THEN tzMatch ELSE TRUE]

-----------------------------------------------------------------------------
(* Behavior analyzer: src/unnamed/part_004, lines 1-484                      *)
(*                                                                         *)
(* An event is [type, data, timestamp]; data is [present, x, y, timestamp], *)
(* present = FALSE for a request body that carried no data.  event.timestamp *)
(* is the server's Date.now() and never 0, so the trailing `|| Date.now()`  *)
(* of the timestamp expressions is never taken.                             *)
(* The arithmetic is exact on integers: a standard deviation is compared    *)
(* through n * sum(x^2) - sum(x)^2, a quotient through cross-multiplication. *)

NoData == [present |-> FALSE, x |-> 0, y |-> 0, timestamp |-> 0]

\* event.data?.timestamp || event.timestamp
EventTime(e) ==
    IF e.data.present /\ e.data.timestamp # 0 THEN e.data.timestamp ELSE e.timestamp

OfType(events, type) == SelectSeq(events, LAMBDA e : e.type = type)

\* Math.sqrt on a perfect square; the floor otherwise
ISqrt(n) == CHOOSE r \in 0..n : r * r <= n /\ (r + 1) * (r + 1) > n

RECURSIVE SumSquares(_)
SumSquares(s) == IF s = <<>> THEN 0 ELSE s[1] * s[1] + SumSquares(Tail(s))

\* n^2 times the mean square of s, taken about zero instead of the mean
RawSpread(s) == Len(s) * SumSquares(s)

\* n^2 times the population variance of s
Spread(s) == Len(s) * SumSquares(s) - SumSeq(s) * SumSeq(s)

\* p / q < r / s for p, r >= 0 and q, s > 0, by continued fractions (no product)
RECURSIVE FracLess(_, _, _, _)
FracLess(p, q, r, s) ==
    IF p \div q # r \div s THEN p \div q < r \div s
    ELSE IF r % s = 0 THEN FALSE
    ELSE IF p % q = 0 THEN TRUE
    ELSE FracLess(s, r % s, q, p % q)

Differences(s) == [i \in 1..(Len(s) - 1) |-> s[i + 1] - s[i]]

Count(S) == Cardinality(S)

\* pixels per second between consecutive points, where time advanced
Speeds(points, times) ==
    LET steps == SelectSeq([i \in 1..(Len(points) - 1) |-> i],
                           LAMBDA i : times[i + 1] - times[i] > 0)
    IN  [k \in 1..Len(steps) |->
            LET i  == steps[k]
                dx == points[i + 1][1] - points[i][1]
                dy == points[i + 1][2] - points[i][2]
            IN  (ISqrt(dx * dx + dy * dy) * 1000) \div (times[i + 1] - times[i])]

\* explained variance of the first principal component of the standardised
\* points is (1 + |r|) / 2 with r the correlation of x and y; it is below 0.98
\* when r^2 < 576/625.  PCA refuses a column of zero deviation: the catch
\* branch then sets the ratio to 0.5.
StraightLineRatioBelowLimit(points) ==
    LET n   == Len(points)
        xs  == [i \in 1..n |-> points[i][1] - points[1][1]]
        ys  == [i \in 1..n |-> points[i][2] - points[1][2]]
        vx  == Spread(xs)
        vy  == Spread(ys)
        cov == Abs(n * SumSeq([i \in 1..n |-> xs[i] * ys[i]]) - SumSeq(xs) * SumSeq(ys))
    IN  IF vx = 0 \/ vy = 0 THEN TRUE
        ELSE IF cov = 0 THEN TRUE
        ELSE FracLess(625 * cov, vx, 576 * vy, cov)

analyzeMouseTrajectory(mouseEvents) ==
    LET usable == SelectSeq(mouseEvents, LAMBDA e : e.data.present)
        points == [i \in 1..Len(usable) |-> <<usable[i].data.x, usable[i].data.y>>]
        times  == [i \in 1..Len(usable) |-> EventTime(usable[i])]
        speeds == Speeds(points, times)
        accelerations == Differences(speeds)
        accelerationChanges ==
            Count({i \in 2..Len(accelerations) :
                     \/ accelerations[i] > 0 /\ accelerations[i - 1] < 0
                     \/ accelerations[i] < 0 /\ accelerations[i - 1] > 0})
        directionChanges ==
            Count({i \in 3..Len(points) :
                     LET ax  == points[i - 1][1] - points[i - 2][1]
                         ay  == points[i - 1][2] - points[i - 2][2]
                         bx  == points[i][1] - points[i - 1][1]
                         by  == points[i][2] - points[i - 1][2]
                         dot == ax * bx + ay * by
                         m1  == ax * ax + ay * ay
                         m2  == bx * bx + by * by
                     IN  m1 > 0 /\ m2 > 0
                         /\ (dot <= 0 \/ 100 * dot * dot < 81 * m1 * m2)})   \* cos < 0.9
        \* standard deviation of the speeds > 50
        speedVaries == Spread(speeds) > 2500 * Len(speeds) * Len(speeds)
    IN  IF Len(mouseEvents) < 5 \/ Len(points) < 5
        THEN [isNatural |-> FALSE,
              metrics |-> [accelerationChanges |-> 0, directionChanges |-> 0]]
        ELSE [isNatural |-> speedVaries /\ accelerationChanges >= 2
                            /\ directionChanges >= 3
                            /\ StraightLineRatioBelowLimit(points),
              metrics |-> [accelerationChanges |-> accelerationChanges,
                           directionChanges |-> directionChanges]]

\* the backwards scan for a pointer move less than a second before the click:
\* it reads event.data.timestamp of every pointer move it passes
RECURSIVE ScanForMovement(_, _, _)
ScanForMovement(allEvents, j, clickTime) ==
    IF j = 0 THEN "none"
    ELSE IF allEvents[j].type # "mousemove" THEN ScanForMovement(allEvents, j - 1, clickTime)
    ELSE IF ~allEvents[j].data.present THEN "throws"
    ELSE IF EventTime(allEvents[j]) < clickTime /\ clickTime - EventTime(allEvents[j]) < 1000
         THEN "found"
    ELSE ScanForMovement(allEvents, j - 1, clickTime)

\* analyzeClickPattern reads clickEvents[i].data.timestamp unguarded: a TypeError
\* when a click (or a pointer move it scans) was recorded without data
ClickPatternThrows(clickEvents, allEvents) ==
    /\ Len(clickEvents) >= 2
    /\ \/ \E i \in 1..Len(clickEvents) : ~clickEvents[i].data.present
       \/ \E i \in 1..Len(clickEvents) :
              ScanForMovement(allEvents, Len(allEvents), EventTime(clickEvents[i])) = "throws"

analyzeClickPattern(clickEvents, allEvents) ==
    LET n == Len(clickEvents)
        clickTimes == [i \in 1..n |-> EventTime(clickEvents[i])]
        clicksWithoutMovement ==
            Count({i \in 1..n :
                     ScanForMovement(allEvents, Len(allEvents), clickTimes[i]) # "found"})
    IN  IF n < 2
        THEN [isNatural |-> FALSE, metrics |-> [clickCount |-> n, clicksWithoutMovement |-> 0]]
        ELSE [isNatural |->
                  \* mean interval > 500 and precision > 0.7
                  /\ clickTimes[n] - clickTimes[1] > 500 * (n - 1)
                  /\ 10 * (n - clicksWithoutMovement) > 7 * n,
              metrics |-> [clickCount |-> n,
                           clicksWithoutMovement |-> clicksWithoutMovement]]

\* the coefficient of variation of the intervals against a limit num/den:
\* stddev / mean < num / den.  A zero mean gives NaN or Infinity, never "less".
\* The quotient does not change when every interval is divided by a common
\* divisor, which keeps the squares small.
RECURSIVE Gcd(_, _)
Gcd(a, b) == IF b = 0 THEN a ELSE Gcd(b, a % b)

RECURSIVE GcdSeq(_)
GcdSeq(s) == IF s = <<>> THEN 0 ELSE Gcd(Abs(s[1]), GcdSeq(Tail(s)))

Reduced(s) == IF GcdSeq(s) = 0 THEN s ELSE [i \in 1..Len(s) |-> s[i] \div GcdSeq(s)]

VariationBelow(intervals, num, den) ==
    LET d == Reduced(intervals)
        s == SumSeq(d)
    IN  IF s = 0 THEN FALSE
        ELSE IF s < 0 THEN TRUE
        ELSE den * den * Spread(d) < num * num * s * s

VariationAbove(intervals, num, den) ==
    LET d == Reduced(intervals)
        s == SumSeq(d)
    IN  IF s = 0 THEN Spread(d) > 0
        ELSE IF s < 0 THEN FALSE
        ELSE den * den * Spread(d) > num * num * s * s

analyzeEventTimeIntervals(events) ==
    LET intervals == Differences([i \in 1..Len(events) |-> EventTime(events[i])])
        regular   == VariationBelow(intervals, 1, 10)
    IN  IF Len(events) < 5
        THEN [isNatural |-> FALSE, metrics |-> [suspiciouslyRegularIntervals |-> FALSE]]
        ELSE [isNatural |-> ~regular /\ VariationAbove(intervals, 2, 10),
              metrics |-> [suspiciouslyRegularIntervals |-> regular]]

analyzeKeyPressPattern(keypressEvents) ==
    LET intervals == Differences([i \in 1..Len(keypressEvents) |->
                                     EventTime(keypressEvents[i])])
        m == Len(intervals)
    IN  IF Len(keypressEvents) < 5
        THEN [isNatural |-> FALSE, metrics |-> [suspiciouslyFastTyping |-> FALSE]]
        ELSE [isNatural |-> /\ SumSeq(intervals) > 100 * m            \* mean > 100
                            /\ Spread(intervals) > 2500 * m * m,      \* stddev > 50
              metrics |-> [suspiciouslyFastTyping |-> SumSeq(intervals) < 50 * m]]

\* TRUE when analyzeBehavior(events) ends in a TypeError instead of a result
analyzeBehaviorThrows(events) ==
    /\ Len(OfType(events, "mousemove")) >= 5
    /\ ClickPatternThrows(OfType(events, "click"), events)

\* more than half of the points
ScoreAboveHalf(score) == score > 50

\* result.isHuman = result.score >= 50
ScoreIsHuman(score) == score >= 50

analyzeBehavior(events) ==
    LET mouseEvents    == OfType(events, "mousemove")
        clickEvents    == OfType(events, "click")
        keypressEvents == OfType(events, "keypress")
        trajectory == analyzeMouseTrajectory(mouseEvents)
        clicks     == analyzeClickPattern(clickEvents, events)
        timing     == analyzeEventTimeIntervals(events)
        keys       == analyzeKeyPressPattern(keypressEvents)
        hasKeys    == Len(keypressEvents) > 0
        score      == (IF trajectory.isNatural THEN 30 ELSE 0)
                      + (IF clicks.isNatural THEN 25 ELSE 0)
                      + (IF timing.isNatural THEN 25 ELSE 0)
                      + (IF hasKeys /\ keys.isNatural THEN 20 ELSE 0)
    IN  IF Len(events) = 0
        THEN [isHuman |-> FALSE, score |-> 0, reasons |-> <<"not enough behavior data">>]
        ELSE IF Len(mouseEvents) < 5
        THEN [isHuman |-> FALSE, score |-> 0, reasons |-> <<"too few pointer moves">>]
        ELSE [isHuman |-> ScoreIsHuman(score),
              score   |-> score,
              reasons |-> If(~trajectory.isNatural, "trajectory not natural")
                          \o If(~clicks.isNatural, "click pattern not natural")
                          \o If(~timing.isNatural, "event timing not natural")
                          \o If(hasKeys /\ ~keys.isNatural, "keystrokes not natural")]

-----------------------------------------------------------------------------
(* Decision aggregator: src/api/verify.js, lines 328-572 *)

Null == [null |-> TRUE]

\* list.join(', ') for a list of one-token texts
JoinTokens(list) == Join([i \in 1..Len(list) |-> <<list[i]>>], <<", ">>)

automationHeaders ==
    {<<"x-", "selenium">>, <<"x-", "selenium", "-ide-recorder">>, <<"x-requested-with">>,
     <<"selenium">>, <<"driver">>, <<"web", "driver">>, <<"puppeteer">>, <<"playwright">>,
     <<"headless">>, <<"cypress">>}

\* the text of a header name, cut into the tokens the vocabulary is made of
HeaderNameText(name) ==
    CASE name = "x-selenium" -> <<"x-", "selenium">>
      [] name = "x-webdriver" -> <<"x-", "web", "driver">>
      [] OTHER -> <<name>>

RECURSIVE SetToSeq(_)
SetToSeq(S) ==
    IF S = {} THEN <<>>
    ELSE LET x == CHOOSE y \in S : TRUE IN <<x>> \o SetToSeq(S \ {x})

checkSuspiciousHeaders(headers) ==
    SetToSeq({name \in DOMAIN headers :
        \/ \E h \in automationHeaders : Includes(ToLowerCase(HeaderNameText(name)), h)
        \/ TruthyStr(headers[name])
           /\ \E h \in automationHeaders : Includes(ToLowerCase(headers[name]), h)})

analyzeRequestPattern(session) ==
    LET events    == session.events
        intervals == Differences([i \in 1..Len(events) |-> events[i].timestamp])
        regular   == Len(events) >= 5 /\ VariationBelow(intervals, 1, 10)
        hasClickWithoutMove ==
            /\ Len(events) >= 3
            /\ \E index \in 2..Len(events) :
                  /\ events[index].type = "click"
                  /\ ~\E k \in 1..(index - 1) : events[k].type = "mousemove"
    IN  [suspicious |-> regular \/ hasClickWithoutMove,
         reason     |-> IF hasClickWithoutMove THEN <<"click without pointer move">>
                        ELSE IF regular THEN <<"event intervals too regular">>
                        ELSE <<>>]

\* new UAParser(ua).getResult(): browser and os are objects, present whatever the text
ParsedUserAgentComplete(clientInfo) == TruthyStr(clientInfo.userAgent)

\* Date.now() taken for the session age, without the creation time
MillisecondsSinceEpoch(session, t) == t

\* const sessionAge = Date.now() - session.createdAt
SessionAge(session, t) == t - session.createdAt

HasSomeDeviceInfo(clientInfo) ==
    TruthyStr(clientInfo.screenResolution) \/ TruthyStr(clientInfo.timezone)

\* const hasDeviceInfo = clientInfo.screenResolution && clientInfo.timezone
HasDeviceInfo(clientInfo) ==
    TruthyStr(clientInfo.screenResolution) /\ TruthyStr(clientInfo.timezone)

\* the result's score is kept doubled: twiceScore = 2 * score
verifySession(session, req, t) ==
    LET automation  == session.analysis.automation
        behavior    == session.analysis.behavior
        fingerprint == session.analysis.fingerprint
        network     == session.analysis.network
        n           == Len(session.events)
        fewEvents   == behavior = Null /\ n < 5
        sessionAge  == SessionAge(session, t)
        tooShort    == sessionAge < 1000
        burst       == ~tooShort /\ sessionAge < 3000 /\ n > 10
        hasDeviceInfo == HasDeviceInfo(session.clientInfo)
        uaIncomplete  == ~ParsedUserAgentComplete(session.clientInfo)
        suspiciousHeaders == checkSuspiciousHeaders(req.headers)
        pattern     == analyzeRequestPattern(session)
        twice ==
              (IF automation = Null THEN 0 ELSE IF automation.isAutomated THEN 0 - 80 ELSE 40)
            + (IF behavior # Null THEN (IF behavior.isHuman THEN 60 ELSE 0 - 60)
               ELSE IF fewEvents THEN 0 - 40 ELSE 0)
            + (IF fingerprint = Null THEN 0 ELSE fingerprint.score - 50)
            + (IF network = Null THEN 0 ELSE network.score - 50)
            + (IF tooShort THEN 0 - 60 ELSE IF burst THEN 0 - 40 ELSE 0)
            + (IF n = 0 THEN 0 - 60 ELSE 0)
            + (IF hasDeviceInfo THEN 0 ELSE 0 - 30)
            + (IF uaIncomplete THEN 0 - 30 ELSE 0)
            + (IF suspiciousHeaders # <<>> THEN 0 - 30 ELSE 0)
            + (IF pattern.suspicious THEN 0 - 40 ELSE 0)
        twiceScore == Max(0, Min(200, twice + 100))
    IN  [isHuman    |-> twiceScore >= 120,
         twiceScore |-> twiceScore,
         reasons    |->
             (IF automation # Null /\ automation.isAutomated
              THEN <<<<"automation tool detected: ">> \o JoinTokens(automation.detectedTools)>>
              ELSE <<>>)
             \o (IF behavior # Null /\ ~behavior.isHuman
                 THEN <<<<"behavior: ">> \o JoinTokens(behavior.reasons)>>
                 ELSE <<>>)
             \o If(fewEvents, <<"too few interaction events">>)
             \o (IF fingerprint # Null /\ Len(fingerprint.anomalies) > 0
                 THEN <<<<"fingerprint anomalies: ">>
                        \o JoinTokens(Slice(fingerprint.anomalies, 3))
                        \o (IF Len(fingerprint.anomalies) > 3 THEN <<" and more">> ELSE <<>>)>>
                 ELSE <<>>)
             \o (IF network # Null /\ Len(network.reasons) > 0
                 THEN <<<<"network: ">> \o JoinTokens(Slice(network.reasons, 2))
                        \o (IF Len(network.reasons) > 2 THEN <<" and more">> ELSE <<>>)>>
                 ELSE <<>>)
             \o If(tooShort, <<"session too short">>)
             \o If(burst, <<"many events in a short time">>)
             \o If(n = 0, <<"no interaction events">>)
             \o If(~hasDeviceInfo, <<"missing device info">>)
             \o If(uaIncomplete, <<"incomplete user agent">>)
             \o (IF suspiciousHeaders # <<>>
                 THEN <<<<"suspicious headers: ">> \o JoinTokens(suspiciousHeaders)>>
                 ELSE <<>>)
             \o (IF pattern.suspicious
                 THEN <<<<"abnormal request pattern: ">> \o pattern.reason>>
                 ELSE <<>>),
         details    |->
             [automation  |-> IF automation = Null THEN Null
                              ELSE [score |-> 100 - automation.automationScore,
                                    isAutomated |-> automation.isAutomated,
                                    detectedTools |-> automation.detectedTools,
                                    reasons |-> automation.reasons],
              behavior    |-> IF behavior = Null THEN Null
                              ELSE [score |-> behavior.score, isHuman |-> behavior.isHuman,
                                    reasons |-> behavior.reasons],
              fingerprint |-> IF fingerprint = Null THEN Null
                              ELSE [score |-> fingerprint.score,
                                    fingerprint |-> fingerprint.fingerprint,
                                    anomalies |-> fingerprint.anomalies],
              network     |-> IF network = Null THEN Null
                              ELSE [score |-> network.score, proxied |-> network.proxied,
                                    vpnDetected |-> network.vpnDetected,
                                    datacenterIP |-> network.datacenterIP,
                                    ipTimezoneMatch |-> network.ipTimezoneMatch]]]

-----------------------------------------------------------------------------
(* Session lifecycle: src/api/verify.js, lines 13-326                       *)
(*                                                                         *)
(* Every handler takes t, the value Date.now() has while it runs.           *)

BehaviorThreshold == 10
KeptEvents == 50
SessionTTL == 24 * 60 * 60 * 1000

\* behaviorRuns counts the runs of analyzeBehavior per session, up to MaxCountedRuns
MaxCountedRuns == 3
Counted(n) == IF n > MaxCountedRuns THEN MaxCountedRuns ELSE n

BodyStr(body, field) == IF field \in DOMAIN body THEN body[field] ELSE NullStr
BodyNum(body, field) == IF field \in DOMAIN body THEN body[field] ELSE NullNum
BodyFlag(body, field) == field \in DOMAIN body /\ body[field]

\* the clientInfo object of /init; `body.x || null` turns '', 0 and false into null
BuildClientInfo(req) ==
    LET body == req.body
    IN  [ip                  |-> getClientIp(req),
         userAgent           |-> Header(req.headers, "user-agent"),
         headers             |-> req.headers,
         canvasFingerprint   |-> OrStr(BodyStr(body, "canvasFingerprint"), NullStr),
         webglFingerprint    |-> OrStr(BodyStr(body, "webglFingerprint"), NullStr),
         webglVendor         |-> OrStr(BodyStr(body, "webglVendor"), NullStr),
         webglRenderer       |-> OrStr(BodyStr(body, "webglRenderer"), NullStr),
         audioFingerprint    |-> OrStr(BodyStr(body, "audioFingerprint"), NullStr),
         screenResolution    |-> OrStr(BodyStr(body, "screenResolution"), NullStr),
         colorDepth          |-> OrNum(BodyNum(body, "colorDepth"), NullNum),
         pixelRatio          |-> OrNum(BodyNum(body, "pixelRatio"), NullNum),
         timezone            |-> OrStr(BodyStr(body, "timezone"), NullStr),
         timezoneOffset      |-> OrNum(BodyNum(body, "timezoneOffset"), NullNum),
         language            |-> OrStr(BodyStr(body, "language"), NullStr),
         platform            |-> OrStr(BodyStr(body, "platform"), NullStr),
         hardwareConcurrency |-> OrNum(BodyNum(body, "hardwareConcurrency"), NullNum),
         deviceMemory        |-> OrNum(BodyNum(body, "deviceMemory"), NullNum),
         plugins             |-> OrStr(BodyStr(body, "plugins"), NullStr),
         fonts               |-> IF "fonts" \in DOMAIN body THEN body["fonts"] ELSE <<>>,
         touchSupport        |-> BodyFlag(body, "touchSupport"),
         maxTouchPoints      |-> OrNum(BodyNum(body, "maxTouchPoints"), 0),
         webdriver           |-> BodyFlag(body, "webdriver")]

\* a rejection that records no reason
Unexplained(automation) == NullStr

AutomationReason(automation) ==
    <<"automation tool detected: ">> \o JoinTokens(automation.detectedTools)

Exists(sessionId) == sessionId \in DOMAIN sessions

\* the answer of a catch block
ServerError(op, sessionId) ==
    [op |-> op, sessionId |-> sessionId, code |-> 500, success |-> FALSE]

NotFoundWithoutStatus(op, sessionId) ==
    [op |-> op, sessionId |-> sessionId, code |-> 200, success |-> FALSE]

NotFound(op, sessionId) ==
    [op |-> op, sessionId |-> sessionId, code |-> 404, success |-> FALSE]

\* the session object of /init, and the status the analyses leave it with
NewSession(sessionId, clientInfo, automation, fingerprint, network, rejected, t) ==
    [id |-> sessionId,
     createdAt |-> t,
     status |-> IF rejected THEN "rejected" ELSE "pending",
     clientInfo |-> clientInfo,
     events |-> <<>>,
     analysis |-> [automation |-> automation, behavior |-> Null,
                   network |-> network, fingerprint |-> fingerprint],
     rejectionReason |-> IF rejected THEN AutomationReason(automation) ELSE NullStr,
     verifiedAt |-> NullNum,
     verificationScore |-> NullNum]

AutoRejectedAny(automation) == automation.isAutomated

AutoRejected(automation) == automation.isAutomated /\ automation.automationScore > 80

AnalysedSession(sessionId, clientInfo, automation, req, t) ==
    NewSession(sessionId, clientInfo, automation, analyzeFingerprint(clientInfo),
               analyzeNetwork(clientInfo, req), AutoRejected(automation), t)

StoreNew(session, t) ==
    /\ sessions' = sessions @@ (session.id :> session)
    /\ nextId' = nextId + 1
    /\ now' = t
    /\ response' = [op |-> "init", sessionId |-> session.id, code |-> 200,
                    success |-> TRUE, timestamp |-> t, status |-> session.status,
                    rejectionReason |-> session.rejectionReason]
    /\ firstResult' = firstResult @@ (session.id :> Null)
    /\ behaviorRuns' = behaviorRuns @@ (session.id :> 0)

InitSession(sessionId, clientInfo, req, t) ==
    StoreNew(AnalysedSession(sessionId, clientInfo, detectAutomation(clientInfo), req, t), t)

\* POST /init
CreateSession(req, t) == InitSession(nextId, BuildClientInfo(req), req, t)

SessionRejected(sessionId, reason) ==
    [op |-> "event", sessionId |-> sessionId, code |-> 200, success |-> FALSE,
     message |-> "session rejected", rejectionReason |-> reason]

\* a threshold no result falls below
BelowEveryScore(behaviorResult) == ~behaviorResult.isHuman /\ behaviorResult.score < 0

\* if (!behaviorResult.isHuman && behaviorResult.score < 30)
BotLike(behaviorResult) == ~behaviorResult.isHuman /\ behaviorResult.score < 30

\* POST /event/:sessionId
RecordEvent(sessionId, type, data, t) ==
    /\ now' = t
    /\ UNCHANGED <<nextId, firstResult>>
    /\ IF ~Exists(sessionId)
       THEN /\ response' = NotFound("event", sessionId)
            /\ UNCHANGED <<sessions, behaviorRuns>>
       ELSE IF sessions[sessionId].status = "rejected"
       THEN /\ response' = SessionRejected(sessionId,
                                           OrStr(sessions[sessionId].rejectionReason, NullStr))
            /\ UNCHANGED <<sessions, behaviorRuns>>
       ELSE
       LET session == sessions[sessionId]
           events  == Append(session.events, [type |-> type, data |-> data, timestamp |-> t])
           pushed  == [session EXCEPT !.events = events]
           analyse == Len(events) >= BehaviorThreshold /\ session.analysis.behavior = Null
       IN  IF ~analyse
           THEN /\ sessions' = [sessions EXCEPT ![sessionId] = pushed]
                /\ response' = [op |-> "event", sessionId |-> sessionId, code |-> 200,
                                success |-> TRUE, eventsCount |-> Len(events)]
                /\ UNCHANGED behaviorRuns
           ELSE
           /\ behaviorRuns' = [behaviorRuns EXCEPT ![sessionId] = Counted(@ + 1)]
           /\ IF analyzeBehaviorThrows(events)
              THEN /\ sessions' = [sessions EXCEPT ![sessionId] = pushed]
                   /\ response' = ServerError("event", sessionId)
              ELSE
              LET behaviorResult == analyzeBehavior(events)
                  cached == [pushed EXCEPT !.analysis.behavior = behaviorResult]
              IN  IF BotLike(behaviorResult)
                  THEN /\ sessions' = [sessions EXCEPT ![sessionId] =
                                          [cached EXCEPT !.status = "rejected",
                                                         !.rejectionReason = <<"bot-like behavior">>]]
                       /\ response' = SessionRejected(sessionId, <<"bot-like behavior">>)
                  ELSE /\ sessions' = [sessions EXCEPT ![sessionId] = cached]
                       /\ response' = [op |-> "event", sessionId |-> sessionId,
                                       code |-> 200, success |-> TRUE,
                                       eventsCount |-> Len(events)]

\* a log long enough for the threshold of RecordEvent
ReachedThreshold(session) == Len(session.events) >= BehaviorThreshold

\* session.events.length > 0
HasEvents(session) == Len(session.events) > 0

\* POST /verify/:sessionId
Evaluate(sessionId, req, t) ==
    /\ now' = t
    /\ UNCHANGED nextId
    /\ IF ~Exists(sessionId)
       THEN /\ response' = NotFound("verify", sessionId)
            /\ UNCHANGED <<sessions, firstResult, behaviorRuns>>
       ELSE IF sessions[sessionId].status # "pending"
       THEN
       LET session == sessions[sessionId]
       IN  /\ response' =
                [op |-> "verify", sessionId |-> sessionId, code |-> 200, success |-> TRUE,
                 result |->
                   [isHuman |-> session.status = "verified",
                    twiceScore |-> IF TruthyNum(session.verificationScore)
                                   THEN session.verificationScore ELSE 0,
                    reasons |-> IF TruthyStr(session.rejectionReason)
                                THEN <<session.rejectionReason>> ELSE <<>>,
                    automationDetected |-> session.analysis.automation.isAutomated,
                    detectedTools |-> session.analysis.automation.detectedTools]]
           /\ UNCHANGED <<sessions, firstResult, behaviorRuns>>
       ELSE
       LET session == sessions[sessionId]
           analyse == session.analysis.behavior = Null /\ HasEvents(session)
       IN  IF analyse /\ analyzeBehaviorThrows(session.events)
           THEN /\ response' = ServerError("verify", sessionId)
                /\ behaviorRuns' = [behaviorRuns EXCEPT ![sessionId] = Counted(@ + 1)]
                /\ UNCHANGED <<sessions, firstResult>>
           ELSE
           LET analysed == IF analyse
                           THEN [session EXCEPT !.analysis.behavior =
                                                    analyzeBehavior(session.events)]
                           ELSE session
               verificationResult == verifySession(analysed, req, t)
               decided ==
                   [analysed EXCEPT
                      !.status = IF verificationResult.isHuman THEN "verified" ELSE "rejected",
                      !.verifiedAt = t,
                      !.verificationScore = verificationResult.twiceScore,
                      !.rejectionReason = IF verificationResult.isHuman THEN @
                                          ELSE Join(verificationResult.reasons, <<", ">>),
                      !.events = Slice(@, KeptEvents)]
           IN  /\ sessions' = [sessions EXCEPT ![sessionId] = decided]
               /\ behaviorRuns' = [behaviorRuns EXCEPT ![sessionId] =
                                      IF analyse THEN Counted(@ + 1) ELSE @]
               /\ firstResult' = [firstResult EXCEPT ![sessionId] = verificationResult]
               /\ response' = [op |-> "verify", sessionId |-> sessionId, code |-> 200,
                               success |-> TRUE, result |-> verificationResult]

\* a status request that also renews the session
GetStatusRenewing(sessionId, t) ==
    /\ now' = t
    /\ UNCHANGED <<nextId, firstResult, behaviorRuns>>
    /\ IF ~Exists(sessionId)
       THEN response' = NotFound("status", sessionId) /\ UNCHANGED sessions
       ELSE /\ sessions' = [sessions EXCEPT ![sessionId].createdAt = t]
            /\ response' = [op |-> "status", sessionId |-> sessionId, code |-> 200,
                            success |-> TRUE, status |-> sessions[sessionId].status]

\* GET /status/:sessionId
GetStatus(sessionId, t) ==
    /\ now' = t
    /\ UNCHANGED <<sessions, nextId, firstResult, behaviorRuns>>
    /\ IF ~Exists(sessionId)
       THEN response' = NotFound("status", sessionId)
       ELSE LET session == sessions[sessionId]
            IN  response' =
                  [op |-> "status", sessionId |-> sessionId, code |-> 200, success |-> TRUE,
                   status |-> session.status,
                   createdAt |-> session.createdAt,
                   verifiedAt |-> session.verifiedAt,
                   eventsCount |-> Len(session.events),
                   rejectionReason |-> IF TruthyStr(session.rejectionReason)
                                       THEN session.rejectionReason ELSE NullStr,
                   automationDetected |-> session.analysis.automation.isAutomated,
                   detectedTools |-> session.analysis.automation.detectedTools]

\* 24 hours counted from the evaluation of an evaluated session
ExpiredSinceEvaluation(session, t) ==
    t - (IF session.verifiedAt # NullNum THEN session.verifiedAt ELSE session.createdAt)
        > SessionTTL

Expired(session, t) == t - session.createdAt > SessionTTL

\* cleanupSessions, run by setInterval
Sweep(t) ==
    LET kept == {i \in DOMAIN sessions : ~Expired(sessions[i], t)}
    IN  /\ now' = t
        /\ sessions' = [sessionId \in kept |-> sessions[sessionId]]
        \* the history kept about a session goes with it
        /\ firstResult' = [sessionId \in kept |-> firstResult[sessionId]]
        /\ behaviorRuns' = [sessionId \in kept |-> behaviorRuns[sessionId]]
        /\ UNCHANGED <<nextId, response>>

-----------------------------------------------------------------------------
(* The requests the environment sends *)

MaxSessions == 2
MaxEventGap == 600
FillerEvents == 42

SessionIds == 1..MaxSessions

UAChrome == <<"Mozilla", "Win", "Chrome", "Safari">>
UAHeadless == <<"Mozilla", "Linux", "Headless", "Chrome">>
UAMobileLinux == <<"Mozilla", "Linux", "Chrome", "Mobile">>

NoCipher == [present |-> FALSE, name |-> <<>>, version |-> <<>>]
ModernCipher == [present |-> TRUE, name |-> <<"TLS_AES_128_GCM_SHA256">>,
                 version |-> <<"TLSv1.3">>]

BrowserHeaders ==
    ("user-agent" :> UAChrome)
    @@ ("accept" :> <<"text/html", ",", "application/json">>)
    @@ ("accept-language" :> <<"en", "-", "US", ",", "en">>)

FullBody ==
    [canvasFingerprint   |-> <<"canvas-64">>,
     webglFingerprint    |-> <<"webgl-64">>,
     webglVendor         |-> <<"Intel Inc.">>,
     webglRenderer       |-> <<"Intel Iris">>,
     audioFingerprint    |-> <<"audio-16">>,
     screenResolution    |-> <<"2560", "x", "1440">>,
     colorDepth          |-> 24,
     pixelRatio          |-> 2,
     timezone            |-> <<"America/", "New_York">>,
     timezoneOffset      |-> 0 - 300,
     language            |-> <<"en", "-", "US">>,
     platform            |-> <<"Win32">>,
     hardwareConcurrency |-> 8,
     deviceMemory        |-> 8,
     plugins             |-> <<"PDF Viewer", ",", "Chrome PDF Viewer", ",", "Native Client">>,
     fonts               |-> [i \in 1..20 |-> IF i = 1 THEN <<"Arial">> ELSE <<"Font">>],
     touchSupport        |-> FALSE]

\* a desktop browser with a complete snapshot, on a public address
BrowserRequest ==
    [headers |-> BrowserHeaders, body |-> FullBody,
     remoteAddress |-> <<"8.8.8.8">>, cipher |-> ModernCipher]

\* the same browser driven through WebDriver: navigator.webdriver is true and
\* the plugin list is empty, which the SDK sends as ''
WebDriverRequest ==
    [BrowserRequest EXCEPT !.body = [FullBody EXCEPT !.plugins = <<>>] @@ ("webdriver" :> TRUE)]

\* headless Chrome with its defaults, from a datacenter address
HeadlessRequest ==
    [headers |-> ("user-agent" :> UAHeadless) @@ ("accept" :> <<"*/*">>),
     body |-> [screenResolution |-> <<"800", "x", "600">>, timezone |-> <<"UTC">>],
     remoteAddress |-> <<"52.1.2.3">>, cipher |-> NoCipher]

\* no headless marker, but enough soft signals for a total of 55
SoftSignalsRequest ==
    [headers |-> ("user-agent" :> UAMobileLinux) @@ ("accept" :> <<"*/*">>),
     body |-> [screenResolution |-> <<"1920", "x", "1080">>, timezone |-> <<"UTC">>],
     remoteAddress |-> <<"203.0.113.9">>, cipher |-> NoCipher]

\* a bare HTTP client on the loopback interface: an empty body
BareRequest ==
    [headers |-> ("user-agent" :> <<"curl">>), body |-> EmptyObject,
     remoteAddress |-> <<"127.0.0.1">>, cipher |-> NoCipher]

InitRequests ==
    {BrowserRequest, WebDriverRequest, HeadlessRequest, SoftSignalsRequest, BareRequest}

\* a snapshot is sent with the fields the client could collect
Without(body, fields) == [field \in DOMAIN body \ fields |-> body[field]]

\* the desktop browser without its screen resolution, its timezone, or both
NoResolutionRequest ==
    [BrowserRequest EXCEPT !.body = Without(FullBody, {"screenResolution"})]

NoTimezoneRequest ==
    [BrowserRequest EXCEPT !.body = Without(FullBody, {"timezone"})]

NoDeviceInfoRequest ==
    [BrowserRequest EXCEPT !.body = Without(FullBody, {"screenResolution", "timezone"})]

\* the desktop browser with the touch flag left out instead of sent as false
NoTouchFlagRequest ==
    [BrowserRequest EXCEPT !.body = Without(FullBody, {"touchSupport"})]

\* the desktop browser on a public address the geolocation database does not know
NoGeoRequest == [BrowserRequest EXCEPT !.remoteAddress = <<"203.0.113.9">>]

\* a request whose socket has no remote address any more
NoGeoProxyRequest ==
    [NoGeoRequest EXCEPT !.headers = BrowserHeaders
                                       @@ ("x-forwarded-for" :> <<"198.51.100.7">>)]

NoGeoBareRequest == [BareRequest EXCEPT !.remoteAddress = <<"203.0.113.9">>]

NoAddressRequest == [BareRequest EXCEPT !.remoteAddress = NullStr]

SnapshotRequests ==
    {BrowserRequest, NoResolutionRequest, NoTimezoneRequest, NoDeviceInfoRequest,
     NoTouchFlagRequest, NoGeoRequest, NoGeoProxyRequest, NoGeoBareRequest,
     NoAddressRequest, BareRequest, HeadlessRequest}

\* the requests of /verify: only their headers are read
VerifyRequests ==
    {BrowserRequest,
     [BrowserRequest EXCEPT !.headers = BrowserHeaders
                                        @@ ("x-requested-with" :> <<"XMLHttpRequest">>)]}

EvaluateDelays == {0, 1000}

\* An event as the client sends it, gap milliseconds after the previous request
Ev(type, x, y, gap) ==
    [type |-> type, data |-> [present |-> TRUE, x |-> x, y |-> y], gap |-> gap]

Bare(type, gap) ==
    [type |-> type, data |-> [present |-> FALSE, x |-> 0, y |-> 0], gap |-> gap]

\* a pointer that turns, speeds up and slows down, with two clicks
HumanScript ==
    << Ev("mousemove", 0, 0, 100),  Ev("mousemove", 20, 0, 100),
       Ev("mousemove", 20, 10, 200), Ev("mousemove", 50, 10, 100),
       Ev("mousemove", 50, 20, 200), Ev("click", 50, 20, 100),
       Ev("mousemove", 80, 20, 300), Ev("mousemove", 80, 50, 100),
       Ev("click", 80, 50, 500),     Ev("mousemove", 110, 50, 100) >>

\* the same, followed by scrolling
LongScript == HumanScript \o [i \in 1..FillerEvents |-> Ev("scroll", 0, 0, 100)]

\* clicks at a fixed cadence and no pointer move
ClickScript == [i \in 1..BehaviorThreshold |-> Ev("click", 10, 10, 100)]

\* a pointer on a straight line at constant speed and cadence
LineScript == [i \in 1..BehaviorThreshold |-> Ev("mousemove", 10 * i, 0, 100)]

\* five pointer moves, then requests whose body carries a type but no data
BareScript ==
    [i \in 1..5 |-> Ev("mousemove", 10 * i, 0, 100)]
    \o << Bare("click", 100), Bare("click", 100) >>
    \o [i \in 1..5 |-> Ev("scroll", 0, 0, 100)]

Scripts == {LongScript, ClickScript, LineScript, BareScript}

\* a single click
ShortScripts == {<<ClickScript[1]>>}

\* a click before, after and without any pointer move
ClickFirstScript ==
    << Ev("click", 10, 10, 100), Ev("scroll", 0, 0, 300), Ev("scroll", 0, 0, 200) >>

ClickLaterScript ==
    << Ev("scroll", 0, 0, 100), Ev("scroll", 0, 0, 300), Ev("click", 10, 10, 200) >>

MoveFirstScript ==
    << Ev("mousemove", 10, 10, 100), Ev("click", 10, 10, 300), Ev("scroll", 0, 0, 200) >>

SnapshotScripts == {ClickFirstScript, ClickLaterScript, MoveFirstScript, HumanScript}

\* a pointer moved by a program: the same displacement after the same delay,
\* from a starting point of its own
SteadyScript(dx, dy, gap) ==
    [i \in 1..BehaviorThreshold |-> Ev("mousemove", gap + dx * i, gap + dy * i, gap)]

SteadySteps == {0 - 10, 0, 10}

SteadyGaps == {50, 100}

SteadyScripts ==
    {SteadyScript(dx, dy, gap) : dx \in SteadySteps, dy \in SteadySteps, gap \in SteadyGaps}

\* an event of the given type after each gap, at the point (x, x)
EventsAt(type, x, gaps) == [i \in 1..Len(gaps) |-> Ev(type, x, x, gaps[i])]

\* a pointer that wanders, then keys pressed at a person's uneven pace
TypingScript ==
    << Ev("mousemove", 1, 1, 100),  Ev("mousemove", 21, 1, 200),
       Ev("mousemove", 21, 31, 100), Ev("mousemove", 51, 31, 300),
       Ev("mousemove", 51, 11, 150) >>
    \o EventsAt("keypress", 0, <<150, 300, 120, 400, 200>>)

\* the same pointer, then keys pressed every 30 ms
RobotTypingScript ==
    << Ev("mousemove", 2, 2, 100),  Ev("mousemove", 22, 2, 200),
       Ev("mousemove", 22, 32, 100), Ev("mousemove", 52, 32, 300),
       Ev("mousemove", 52, 12, 150) >>
    \o EventsAt("keypress", 0, <<30, 30, 30, 30, 30>>)

\* four pointer moves among clicks and keys
FewMovesScript ==
    EventsAt("mousemove", 3, <<100, 250>>) \o EventsAt("click", 3, <<600, 500>>)
    \o EventsAt("mousemove", 4, <<100, 250>>)
    \o EventsAt("keypress", 0, <<150, 300, 120, 400>>)

\* five pointer moves, each followed by a click
PointAndClickScript ==
    << Ev("mousemove", 5, 5, 100),  Ev("click", 5, 5, 250),
       Ev("mousemove", 35, 5, 600), Ev("click", 35, 5, 150),
       Ev("mousemove", 35, 45, 500), Ev("click", 35, 45, 300),
       Ev("mousemove", 5, 45, 500), Ev("click", 5, 45, 200),
       Ev("mousemove", 65, 25, 600), Ev("click", 65, 25, 100) >>

BehaviorScripts ==
    {HumanScript, TypingScript, RobotTypingScript, FewMovesScript, PointAndClickScript,
     ClickScript, LineScript}

SentAs(e) == [type |-> e.type, data |-> [present |-> e.data.present, x |-> e.data.x,
                                          y |-> e.data.y]]

\* e is what a client following one of the scripts sends after the events in log
Follows(scripts, log, e) ==
    \E script \in scripts :
        /\ Len(log) < Len(script)
        /\ script[Len(log) + 1] = e
        /\ \A i \in 1..Len(log) : SentAs(log[i]) = SentAs(script[i])

FirstEvents(scripts) == {script[1] : script \in scripts}

DataAt(e, t) ==
    IF e.data.present
    THEN [present |-> TRUE, x |-> e.data.x, y |-> e.data.y, timestamp |-> t]
    ELSE NoData

Accepting(sessionId) == Exists(sessionId) /\ sessions[sessionId].status # "rejected"

\* the client's next event: on time for a session that takes events, and the
\* opening event of a script at the current instant for any other session id
Sends(scripts, sessionId, e, t) ==
    IF Accepting(sessionId)
    THEN LET log == sessions[sessionId].events
         IN  /\ Follows(scripts, log, e)
             /\ t = now + e.gap
             /\ Len(log) > 0 => t - log[Len(log)].timestamp <= MaxEventGap
    ELSE e \in FirstEvents(scripts) /\ t = now

Alphabet(scripts) == UNION {{script[i] : i \in 1..Len(script)} : script \in scripts}

\* the instants at which the hourly timer may find the store: now, and for
\* each session the last instant it is kept and the first instant it is not
LastKept == {sessions[i].createdAt + SessionTTL : i \in DOMAIN sessions}
FirstExpired == {sessions[i].createdAt + SessionTTL + 1 : i \in DOMAIN sessions}

-----------------------------------------------------------------------------
(* The state machine *)

Init ==
    /\ sessions = <<>>
    /\ nextId = 1
    /\ now = 1000
    /\ response = Null
    /\ firstResult = <<>>
    /\ behaviorRuns = <<>>
    /\ sdk = Null

CreateSessionStep(limit, requests) ==
    \E req \in requests : nextId <= limit /\ CreateSession(req, now) /\ UNCHANGED sdk

RecordEventStep(scripts) ==
    \E sessionId \in SessionIds : \E e \in Alphabet(scripts) :
        LET t == IF Accepting(sessionId) THEN now + e.gap ELSE now
        IN  Sends(scripts, sessionId, e, t)
            /\ RecordEvent(sessionId, e.type, DataAt(e, t), t)
            /\ UNCHANGED sdk

EvaluateStep(requests) ==
    \E sessionId \in SessionIds : \E req \in requests : \E delay \in EvaluateDelays :
        /\ Exists(sessionId) /\ sessions[sessionId].status # "pending" => delay = 0
        /\ ~Exists(sessionId) => delay = 0
        \* a late request only while the age still matters to the aggregator
        /\ delay > 0 => now - sessions[sessionId].createdAt < 3000
        /\ Evaluate(sessionId, req, now + delay)
        /\ UNCHANGED sdk

GetStatusStep ==
    \E sessionId \in SessionIds : GetStatus(sessionId, now) /\ UNCHANGED sdk

SweepStep(times) ==
    \E t \in times : t >= now /\ Sweep(t) /\ UNCHANGED sdk

\* one client session with full event logs
Next ==
    \/ CreateSessionStep(1, InitRequests)
    \/ RecordEventStep(Scripts)
    \/ EvaluateStep({BrowserRequest})
    \/ GetStatusStep
    \/ SweepStep({now} \cup FirstExpired)

Spec == Init /\ [][Next]_vars

\* several sessions in the store, with short event logs
NextStore ==
    \/ CreateSessionStep(MaxSessions, {BrowserRequest, HeadlessRequest})
    \/ RecordEventStep(ShortScripts)
    \/ EvaluateStep(VerifyRequests)
    \/ GetStatusStep
    \/ SweepStep({now} \cup LastKept \cup FirstExpired)

SpecStore == Init /\ [][NextStore]_vars

\* one session for each kind of snapshot, with a few events
NextSnapshots ==
    \/ CreateSessionStep(1, SnapshotRequests)
    \/ RecordEventStep(SnapshotScripts)
    \/ EvaluateStep({BrowserRequest})
    \/ GetStatusStep
    \/ SweepStep({now} \cup FirstExpired)

SpecSnapshots == Init /\ [][NextSnapshots]_vars

\* one session whose pointer a program or a person moves
NextCadence ==
    \/ CreateSessionStep(1, {BrowserRequest})
    \/ RecordEventStep(SteadyScripts \cup {HumanScript})
    \/ EvaluateStep({BrowserRequest})
    \/ GetStatusStep
    \/ SweepStep({now} \cup FirstExpired)

SpecCadence == Init /\ [][NextCadence]_vars

\* one session whose log mixes pointer moves, clicks and keys
NextBehavior ==
    \/ CreateSessionStep(1, {BrowserRequest})
    \/ RecordEventStep(BehaviorScripts)
    \/ EvaluateStep({BrowserRequest})
    \/ GetStatusStep
    \/ SweepStep({now} \cup FirstExpired)

SpecBehavior == Init /\ [][NextBehavior]_vars

-----------------------------------------------------------------------------
(* analyzeClickPattern on its own: logs longer than the ten events after    *)
(* which the handlers run the behavior analysis                             *)

MaxClicks == 10

ClickIntervals == {500, 1000, 1500}

Stored(type, t) ==
    [type |-> type, data |-> [present |-> TRUE, x |-> 10, y |-> 10, timestamp |-> t],
     timestamp |-> t]

\* n clicks, one every interval ms; the pointer moves 100 ms before each of the
\* first k of them
RECURSIVE ClickLog(_, _, _)
ClickLog(n, k, interval) ==
    IF n = 0 THEN <<>>
    ELSE ClickLog(n - 1, k, interval)
         \o (IF n <= k THEN <<Stored("mousemove", n * interval - 100)>> ELSE <<>>)
         \o <<Stored("click", n * interval)>>

ClickLogs ==
    {ClickLog(n, k, interval) : <<n, k>> \in {p \in (2..MaxClicks) \X (0..MaxClicks) : p[2] <= p[1]},
                                interval \in ClickIntervals}

\* a log is handed over
InitClickPattern ==
    /\ sessions = <<>> /\ nextId = 1 /\ now = 1000
    /\ firstResult = <<>> /\ behaviorRuns = <<>> /\ sdk = Null
    /\ \E log \in ClickLogs : response = [op |-> "events", events |-> log]

\* analyzeClickPattern(clickEvents, events) returns
ApplyClickPattern ==
    /\ response.op = "events"
    /\ response' = [op |-> "analyzeClickPattern", events |-> response.events,
                    result |-> analyzeClickPattern(OfType(response.events, "click"),
                                                   response.events)]
    /\ UNCHANGED <<sessions, nextId, now, firstResult, behaviorRuns, sdk>>

NextClickPattern == ApplyClickPattern

SpecClickPattern == InitClickPattern /\ [][NextClickPattern]_vars

-----------------------------------------------------------------------------
(* The network analyzer applied to requests that differ in their address    *)
(* headers and in the address of the connection.                            *)

ForwardedFor ==
    {NullStr, <<>>, <<"10.0.0.7">>, <<"8.8.8.8">>,
     <<" ", "192.168.1.5", " ", ",", "8.8.8.8">>,
     <<"81.2.69.142", ",", " ", "10.0.0.7">>,
     <<"127.0.0.1", ",", " ", "52.1.2.3", ",", " ", "8.8.8.8">>}

RealIp == {NullStr, <<"192.168.1.5">>, <<"52.1.2.3">>, <<"::1">>}

RemoteAddresses ==
    {NullStr, <<"127.0.0.1">>, <<"10.0.0.7">>, <<"8.8.8.8">>, <<"5.254.0.1">>,
     <<"203.0.113.9">>}

\* a header that is not sent is not a key of req.headers
WithHeader(headers, name, value) ==
    IF value = NullStr THEN headers ELSE (name :> value) @@ headers

AddressRequest(forwardedFor, realIp, remoteAddress) ==
    [BrowserRequest EXCEPT
        !.headers = WithHeader(WithHeader(BrowserHeaders, "x-forwarded-for", forwardedFor),
                               "x-real-ip", realIp),
        !.remoteAddress = remoteAddress]

AddressRequests ==
    {AddressRequest(f, r, a) : f \in ForwardedFor, r \in RealIp, a \in RemoteAddresses}

InitNetwork ==
    /\ sessions = <<>>
    /\ nextId = 1
    /\ now = 1000
    /\ firstResult = <<>>
    /\ behaviorRuns = <<>>
    /\ sdk = Null
    /\ \E req \in AddressRequests : response = [op |-> "request", req |-> req]

ApplyNetwork ==
    /\ response.op = "request"
    /\ response' = [op |-> "analyzeNetwork", req |-> response.req,
                    ip |-> getClientIp(response.req),
                    result |-> analyzeNetwork(BuildClientInfo(response.req), response.req)]
    /\ UNCHANGED <<sessions, nextId, now, firstResult, behaviorRuns, sdk>>

NextNetwork == ApplyNetwork

SpecNetwork == InitNetwork /\ [][NextNetwork]_vars

-----------------------------------------------------------------------------
(* The SDK of src/public/sdk.js against the handlers above.  An instance    *)
(* sends its requests with fetch and continues when the answer arrives;     *)
(* between the two, the handler of the server runs and any other callback   *)
(* of the page may run.  A request under way is [kind, index, answer]:      *)
(* index tells the requests of one kind apart, and answer = Null until the  *)
(* server has handled the request.                                          *)

MaxInFlight == 1       \* event requests under way at one time
MaxVerifyCalls == 2    \* calls of verify() by the page, the timer's call apart
ServiceTime == 100     \* server time between two handled requests

\* the pages an instance may be created in: a browser, and one under WebDriver
SdkPages == <<BrowserRequest, WebDriverRequest>>

\* what the listeners of the page see: ten clicks
SdkScript == ClickScript

\* this.state and the callbacks of this.config, sdk.js:36-43
NewInstance(page) ==
    [page |-> page, sessionId |-> NullNum, verified |-> FALSE, result |-> Null,
     events |-> 0, listening |-> FALSE, timer |-> "unset", calls |-> 0,
     started |-> FALSE, requests |-> {}, onVerified |-> 0, onInitialized |-> 0,
     onError |-> 0]

\* fetch(url, ...) up to its await
Fetch(instance, kind, index) ==
    [instance EXCEPT
        !.requests = @ \cup {[kind |-> kind, index |-> index, answer |-> Null]}]

Waiting(kind) == {r \in sdk.requests : r.kind = kind /\ r.answer = Null}

Returned(kind) == {r \in sdk.requests : r.kind = kind /\ r.answer # Null}

\* the server has handled r: the answer travels back
AnswerOf(r) ==
    sdk' = [sdk EXCEPT !.requests = (@ \ {r}) \cup {[r EXCEPT !.answer = response']}]

\* the continuation of r has run
Done(instance, r) == [instance EXCEPT !.requests = @ \ {r}]

\* the answer 'session rejected' of /event
IsSessionRejected(answer) ==
    /\ ~answer.success
    /\ "message" \in DOMAIN answer
    /\ answer.message = "session rejected"

\* the result the SDK makes up for a rejection it is told about
RejectedResult(reason, default) ==
    [isHuman |-> FALSE, twiceScore |-> 0, reasons |-> <<OrStr(reason, default)>>]

\* verify(), sdk.js:802-812, up to the await of its fetch; call is 0 for the
\* timer's call and the number of the call for a call of the page
CallVerify(instance, call) ==
    IF instance.sessionId = NullNum \/ instance.verified THEN instance
    ELSE Fetch(instance, "verify", call)

\* _recordEvent(type, data), sdk.js:761-775, up to the await of its fetch
CallRecordEvent(instance) ==
    IF instance.sessionId = NullNum \/ instance.verified THEN instance
    ELSE Fetch([instance EXCEPT !.events = @ + 1], "event", instance.events + 1)

InitSdk ==
    /\ sessions = <<>>
    /\ nextId = 1
    /\ now = 1000
    /\ response = Null
    /\ firstResult = <<>>
    /\ behaviorRuns = <<>>
    /\ \E page \in DOMAIN SdkPages : sdk = NewInstance(page)

\* _init(), sdk.js:63-84: the snapshot is posted to /init
SendInit ==
    /\ ~sdk.started
    /\ sdk' = Fetch([sdk EXCEPT !.started = TRUE], "init", sdk.page)
    /\ UNCHANGED <<sessions, nextId, now, response, firstResult, behaviorRuns>>

ServeInit ==
    \E r \in Waiting("init") :
        /\ CreateSession(SdkPages[r.index], now + ServiceTime)
        /\ AnswerOf(r)

\* _init(), sdk.js:85-123: the continuation after the answer of /init
ReceiveInit ==
    \E r \in Returned("init") :
        /\ sdk' =
             IF ~r.answer.success
             THEN [Done(sdk, r) EXCEPT !.onError = @ + 1]
             ELSE IF r.answer.status = "rejected"
             THEN [Done(sdk, r) EXCEPT
                      !.sessionId = r.answer.sessionId,
                      !.verified = TRUE,
                      !.result = RejectedResult(r.answer.rejectionReason,
                                                <<"automation tool detected">>),
                      !.onVerified = @ + 1]
             ELSE [Done(sdk, r) EXCEPT
                      !.sessionId = r.answer.sessionId,
                      !.listening = TRUE,
                      !.timer = "armed",
                      !.onInitialized = @ + 1]
        /\ UNCHANGED <<sessions, nextId, now, response, firstResult, behaviorRuns>>

\* a listener of the page fires: _onClick calls _recordEvent
UserEvent ==
    /\ sdk.listening
    /\ sdk.events < Len(SdkScript)
    /\ Cardinality({r \in sdk.requests : r.kind = "event"}) < MaxInFlight
    /\ sdk' = CallRecordEvent(sdk)
    /\ UNCHANGED <<sessions, nextId, now, response, firstResult, behaviorRuns>>

ServeEvent ==
    \E r \in Waiting("event") :
        /\ RecordEvent(sdk.sessionId, SdkScript[r.index].type,
                       DataAt(SdkScript[r.index], now), now + ServiceTime)
        /\ AnswerOf(r)

\* _recordEvent, sdk.js:777-796: the continuation after the answer of /event
ReceiveEvent ==
    \E r \in Returned("event") :
        /\ sdk' =
             IF IsSessionRejected(r.answer)
             THEN [Done(sdk, r) EXCEPT
                      !.verified = TRUE,
                      !.result = RejectedResult(r.answer.rejectionReason,
                                                <<"abnormal behavior">>),
                      !.listening = FALSE,
                      !.onVerified = @ + 1]
             ELSE Done(sdk, r)
        /\ UNCHANGED <<sessions, nextId, now, response, firstResult, behaviorRuns>>

\* setTimeout(() => this.verify(), this.config.verifyDelay), sdk.js:105-107
TimerFires ==
    /\ sdk.timer = "armed"
    /\ sdk' = CallVerify([sdk EXCEPT !.timer = "fired"], 0)
    /\ UNCHANGED <<sessions, nextId, now, response, firstResult, behaviorRuns>>

\* the page calls verify()
PageVerifies ==
    /\ sdk.calls < MaxVerifyCalls
    /\ sdk' = CallVerify([sdk EXCEPT !.calls = @ + 1], sdk.calls + 1)
    /\ UNCHANGED <<sessions, nextId, now, response, firstResult, behaviorRuns>>

ServeVerify ==
    \E r \in Waiting("verify") :
        /\ Evaluate(sdk.sessionId, SdkPages[sdk.page], now + ServiceTime)
        /\ AnswerOf(r)

\* verify(), sdk.js:814-834: the continuation after the answer of /verify
ReceiveVerify ==
    \E r \in Returned("verify") :
        /\ sdk' =
             IF r.answer.success
             THEN [Done(sdk, r) EXCEPT
                      !.verified = TRUE,
                      !.result = r.answer.result,
                      !.listening = FALSE,
                      !.onVerified = @ + 1]
             ELSE [Done(sdk, r) EXCEPT !.onError = @ + 1]
        /\ UNCHANGED <<sessions, nextId, now, response, firstResult, behaviorRuns>>

NextSdk ==
    \/ SendInit
    \/ ServeInit
    \/ ReceiveInit
    \/ UserEvent
    \/ ServeEvent
    \/ ReceiveEvent
    \/ TimerFires
    \/ PageVerifies
    \/ ServeVerify
    \/ ReceiveVerify

SpecSdk == InitSdk /\ [][NextSdk]_vars

-----------------------------------------------------------------------------
(* Properties *)

\* the step is a call of the operation on sessionId
Records(sessionId) ==
    \E e \in Alphabet(Scripts) : \E t \in {now, now + e.gap} :
        RecordEvent(sessionId, e.type, DataAt(e, t), t)

Evaluates(sessionId) ==
    \E req \in VerifyRequests : \E delay \in EvaluateDelays :
        Evaluate(sessionId, req, now + delay)

Asks(sessionId) == GetStatus(sessionId, now)

Answered(op) == response # Null /\ response.op = op

Terminal(sessionId) == sessions[sessionId].status # "pending"

\* the session became terminal through Evaluate
Evaluated(sessionId) == firstResult[sessionId] # Null

IsPrefix(a, b) == Len(a) <= Len(b) /\ SubSeq(b, 1, Len(a)) = a

\* C1: the status of a session changes only from pending to verified or from
\* pending to rejected; a verified or rejected session keeps its status.
StatusLeavesPendingOnly ==
    [][\A sessionId \in DOMAIN sessions \cap DOMAIN sessions' :
          sessions'[sessionId].status # sessions[sessionId].status
          => /\ sessions[sessionId].status = "pending"
             /\ sessions'[sessionId].status \in {"verified", "rejected"}]_vars

\* C2: RecordEvent on a verified or rejected session changes nothing of the
\* session and answers "session rejected" with the cached reason.
TerminalIgnoresEvents ==
    [][\A sessionId \in DOMAIN sessions :
          (Terminal(sessionId) /\ Records(sessionId))
          => /\ sessions' = sessions
             /\ response' = SessionRejected(sessionId,
                                            OrStr(sessions[sessionId].rejectionReason, NullStr))]_vars

\* C3: once Evaluate has made a session terminal, every later Evaluate answers
\* with the result of that first Evaluate and changes no session.
RepeatedEvaluateIdentical ==
    [][\A sessionId \in DOMAIN sessions :
          (Terminal(sessionId) /\ Evaluated(sessionId) /\ Evaluates(sessionId))
          => /\ sessions' = sessions
             /\ response'.result = firstResult[sessionId]]_vars

\* C4: behavior analysis runs at most once per session.
BehaviorAnalysedOnce ==
    \A sessionId \in DOMAIN behaviorRuns : behaviorRuns[sessionId] <= 1

\* C5: a session that Evaluate has made terminal holds at most 50 events,
\* whatever happens to it afterwards.
TerminalLogBounded ==
    \A sessionId \in DOMAIN sessions :
        Evaluated(sessionId) => Len(sessions[sessionId].events) <= KeptEvents

\* C6: a step on a pending session leaves its log a prefix of the new log,
\* except the Evaluate that makes it terminal, which leaves exactly the
\* earliest 50 entries in their order.
LogAppendOnly ==
    [][\A sessionId \in DOMAIN sessions \cap DOMAIN sessions' :
          sessions[sessionId].status = "pending"
          => LET old == sessions[sessionId].events
                 new == sessions'[sessionId].events
             IN  IF firstResult'[sessionId] # Null
                 THEN new = [i \in 1..Min(Len(old), KeptEvents) |-> old[i]]
                 ELSE IsPrefix(old, new)]_vars

\* C6 witness: Evaluate has just cut a log of more than 50 events
LogTruncated ==
    \E sessionId \in DOMAIN sessions :
        /\ Evaluated(sessionId)
        /\ Answered("verify") /\ response.code = 200
        /\ sessions[sessionId].verifiedAt = now
        /\ Len(sessions[sessionId].events) = KeptEvents
        /\ sessions[sessionId].events[KeptEvents].timestamp < now

\* C7: a session created from a snapshot with webdriver = true and an empty
\* plugin list is rejected by CreateSession, for a reason naming an automation tool.
WebDriverSnapshotRejected ==
    (Answered("init") /\ Exists(response.sessionId)
        /\ sessions[response.sessionId].clientInfo.webdriver
        /\ ~TruthyStr(sessions[response.sessionId].clientInfo.plugins))
    => /\ response.status = "rejected"
       /\ sessions[response.sessionId].status = "rejected"
       /\ Includes(response.rejectionReason, <<"automation tool detected: ">>)

\* C8: CreateSession answers rejected exactly when the automation score is
\* above 80 and pending otherwise; the automation, fingerprint and network
\* records are cached on the new session either way.
CreateRejectsAbove80 ==
    (Answered("init") /\ Exists(response.sessionId))
    => LET session == sessions[response.sessionId]
       IN  /\ response.status = session.status
           /\ session.status \in {"pending", "rejected"}
           /\ (session.status = "rejected")
                 <=> (session.analysis.automation.automationScore > 80)
           /\ session.analysis.automation # Null
           /\ session.analysis.fingerprint # Null
           /\ session.analysis.network # Null

\* C8 witness: a snapshot with an automation score above 80 was rejected
CreateRejected ==
    /\ Answered("init") /\ Exists(response.sessionId)
    /\ response.status = "rejected"
    /\ sessions[response.sessionId].analysis.automation.automationScore > 80

\* C9: Evaluate on a pending session makes it terminal: verified exactly when
\* the score is at least 60, isHuman says the same, and the score stored is
\* the score returned, within 0..100 (0..200 doubled).
EvaluateDecides ==
    [][\A sessionId \in DOMAIN sessions :
          (sessions[sessionId].status = "pending" /\ Evaluates(sessionId))
          => /\ sessions'[sessionId].status \in {"verified", "rejected"}
             /\ response'.code = 200
             /\ response'.result.twiceScore \in 0..200
             /\ response'.result.isHuman <=> response'.result.twiceScore >= 120
             /\ sessions'[sessionId].status = "verified"
                   <=> response'.result.twiceScore >= 120
             /\ sessions'[sessionId].verificationScore = response'.result.twiceScore]_vars

EvaluatesWith(sessionId, req) ==
    \E delay \in EvaluateDelays : Evaluate(sessionId, req, now + delay)

HasReason(result, reason) ==
    \E i \in 1..Len(result.reasons) : result.reasons[i] = reason

\* C11: Evaluate on a pending session with no events, less than 1000 ms after
\* creation, from a snapshot without screen resolution or timezone (one of the
\* two missing is enough) reports the session as too short, without events
\* and without device info, with a score below 60 (120 doubled) and isHuman
\* false, whatever the cached analysis records are.
SparseEarlyEvaluationFails ==
    [][\A sessionId \in DOMAIN sessions :
          (/\ sessions[sessionId].status = "pending"
           /\ Len(sessions[sessionId].events) = 0
           /\ \/ ~TruthyStr(sessions[sessionId].clientInfo.screenResolution)
              \/ ~TruthyStr(sessions[sessionId].clientInfo.timezone)
           /\ Evaluates(sessionId)
           /\ now' - sessions[sessionId].createdAt < 1000)
          => /\ response'.code = 200
             /\ HasReason(response'.result, <<"session too short">>)
             /\ HasReason(response'.result, <<"no interaction events">>)
             /\ HasReason(response'.result, <<"missing device info">>)
             /\ response'.result.twiceScore < 120
             /\ ~response'.result.isHuman
             /\ sessions'[sessionId].status = "rejected"]_vars

\* C11 witness: such a session, with good fingerprint and network records, was
\* evaluated at once and rejected
SparseEarlyEvaluationRejected ==
    \E sessionId \in DOMAIN sessions :
        /\ Answered("verify") /\ response.code = 200 /\ response.sessionId = sessionId
        /\ Evaluated(sessionId) /\ response.result = firstResult[sessionId]
        /\ Len(sessions[sessionId].events) = 0
        /\ sessions[sessionId].verifiedAt - sessions[sessionId].createdAt < 1000
        /\ ~TruthyStr(sessions[sessionId].clientInfo.screenResolution)
        /\ ~TruthyStr(sessions[sessionId].clientInfo.timezone)
        /\ ~sessions[sessionId].analysis.automation.isAutomated
        /\ sessions[sessionId].analysis.fingerprint.score > 50
        /\ sessions[sessionId].analysis.network.score > 50
        /\ sessions[sessionId].status = "rejected"


\* the log holds a click that no pointer move precedes
ClickBeforeAnyMove(events) ==
    \E i \in 1..Len(events) :
        /\ events[i].type = "click"
        /\ \A j \in 1..(i - 1) : events[j].type # "mousemove"

\* C12: whenever Evaluate decides a pending session whose log holds a click
\* with no earlier pointer move, whatever the size of the log and also when
\* the click is the first event, the result carries the abnormal-request-
\* pattern reason for a click without pointer move.
ClickWithoutMoveFlagged ==
    [][\A sessionId \in DOMAIN sessions :
          (/\ sessions[sessionId].status = "pending"
           /\ ClickBeforeAnyMove(sessions[sessionId].events)
           /\ Evaluates(sessionId))
          => /\ response'.code = 200
             /\ HasReason(response'.result,
                          <<"abnormal request pattern: ">>
                              \o <<"click without pointer move">>)]_vars


\* ten pointer moves, each the same delay and the same displacement after
\* the one before
SteadyPointerMoves(events) ==
    /\ Len(events) = 10
    /\ \A i \in 1..10 : events[i].type = "mousemove" /\ events[i].data.present
    /\ \A i \in 2..9 :
          /\ EventTime(events[i + 1]) - EventTime(events[i])
                 = EventTime(events[2]) - EventTime(events[1])
          /\ events[i + 1].data.x - events[i].data.x = events[2].data.x - events[1].data.x
          /\ events[i + 1].data.y - events[i].data.y = events[2].data.y - events[1].data.y

\* the step runs the behavior analysis of sessionId
AnalysesBehavior(sessionId) ==
    /\ sessionId \in DOMAIN sessions /\ sessionId \in DOMAIN sessions'
    /\ sessions[sessionId].analysis.behavior = Null
    /\ sessions'[sessionId].analysis.behavior # Null

\* C13: when the behavior analysis runs on a log of ten pointer moves at an
\* exactly constant cadence and velocity, it reports the trajectory and the
\* event timing as not natural, adds no points for either (the score is 0,
\* below 50) and isHuman is false.
SteadyPointerNotHuman ==
    [][\A sessionId \in DOMAIN sessions :
          (AnalysesBehavior(sessionId) /\ SteadyPointerMoves(sessions'[sessionId].events))
          => LET behavior == sessions'[sessionId].analysis.behavior
             IN  /\ HasReason(behavior, "trajectory not natural")
                 /\ HasReason(behavior, "event timing not natural")
                 /\ behavior.score = 0
                 /\ behavior.score < 50
                 /\ ~behavior.isHuman]_vars

\* C13 witness: a pointer moved on a diagonal at constant speed and cadence
\* was analysed at its tenth event and rejected
SteadyPointerAnalysed ==
    \E sessionId \in DOMAIN sessions :
        /\ SteadyPointerMoves(sessions[sessionId].events)
        /\ sessions[sessionId].events[2].data.x # sessions[sessionId].events[1].data.x
        /\ sessions[sessionId].events[2].data.y # sessions[sessionId].events[1].data.y
        /\ behaviorRuns[sessionId] = 1
        /\ sessions[sessionId].analysis.behavior # Null
        /\ HasReason(sessions[sessionId].analysis.behavior, "trajectory not natural")
        /\ HasReason(sessions[sessionId].analysis.behavior, "event timing not natural")
        /\ ~sessions[sessionId].analysis.behavior.isHuman
        /\ sessions[sessionId].status = "rejected"
        /\ Answered("event")


PercentScore(score) == score \in 0..100

\* the aggregator's score, kept doubled
InDoubledRange(twiceScore) == twiceScore \in 0..200

ResultPercentScore(result) ==
    /\ InDoubledRange(result.twiceScore)
    /\ "details" \in DOMAIN result =>
          \A analyzer \in DOMAIN result.details :
              result.details[analyzer] # Null => PercentScore(result.details[analyzer].score)

\* C14: every score of the automation, behavior, fingerprint and network
\* analyzers and of the aggregator lies in [0, 100], in the records a session
\* caches, in its stored verification score and in every result returned,
\* also on the early-return paths (no ip address, private ip address, fewer
\* than five pointer moves).
ScoresInRange ==
    /\ \A sessionId \in DOMAIN sessions :
          LET session == sessions[sessionId]
          IN  /\ PercentScore(session.analysis.automation.automationScore)
              /\ PercentScore(session.analysis.fingerprint.score)
              /\ PercentScore(session.analysis.network.score)
              /\ session.analysis.behavior # Null => PercentScore(session.analysis.behavior.score)
              /\ session.status # "pending" /\ Evaluated(sessionId)
                    => InDoubledRange(session.verificationScore)
    /\ \A sessionId \in DOMAIN firstResult :
          Evaluated(sessionId) => ResultPercentScore(firstResult[sessionId])
    /\ Answered("verify") /\ response.code = 200 => ResultPercentScore(response.result)

\* C14 witness: a session without ip address and with fewer than five pointer
\* moves was evaluated; the analyzers returned early and the sum of the
\* aggregator was limited from below
EarlyReturnsScored ==
    \E sessionId \in DOMAIN sessions :
        /\ Evaluated(sessionId)
        /\ HasReason(sessions[sessionId].analysis.network, "no ip address")
        /\ sessions[sessionId].analysis.network.score = 0
        /\ sessions[sessionId].analysis.behavior # Null
        /\ HasReason(sessions[sessionId].analysis.behavior, "too few pointer moves")
        /\ sessions[sessionId].analysis.behavior.score = 0
        /\ firstResult[sessionId].twiceScore = 0
        /\ sessions[sessionId].verificationScore = 0


\* the step is a run of the hourly timer
Sweeps == \E t \in {now} \cup LastKept \cup FirstExpired : t >= now /\ Sweep(t)

\* C15: a run of Sweep removes exactly the sessions created more than 24
\* hours before it, whatever their status and however recent their last
\* event or evaluation; every younger session stays, with all its fields
\* unchanged.
SweepRemovesByAge ==
    [][Sweeps =>
          /\ DOMAIN sessions' =
                 {sessionId \in DOMAIN sessions :
                      now' - sessions[sessionId].createdAt <= 24 * 60 * 60 * 1000}
          /\ \A sessionId \in DOMAIN sessions' : sessions'[sessionId] = sessions[sessionId]]_vars


\* C15 witness: the timer removed a session more than 24 hours old that had
\* just been evaluated, and kept a younger one
SweptBesideKept ==
    \E kept \in DOMAIN sessions : \E removed \in SessionIds \ DOMAIN sessions :
        /\ removed < nextId
        /\ Answered("verify") /\ response.code = 200 /\ response.sessionId = removed
        /\ now > SessionTTL
        /\ now - sessions[kept].createdAt <= SessionTTL


\* the components of the identity hash that come with the request body
ComponentFields ==
    {"language", "colorDepth", "screenResolution", "timezone", "timezoneOffset",
     "platform", "plugins", "canvasFingerprint", "webglFingerprint", "webglVendor",
     "webglRenderer", "audioFingerprint", "fonts", "touchSupport", "maxTouchPoints",
     "hardwareConcurrency", "deviceMemory", "pixelRatio"}

\* the component set a request supplies: the fields it carries, each with its
\* value, and the user agent
SuppliedComponents(req) ==
    [body      |-> [field \in DOMAIN req.body \cap ComponentFields |-> req.body[field]],
     userAgent |-> Header(req.headers, "user-agent")]

HashOf(req) == analyzeFingerprint(BuildClientInfo(req)).fingerprint

\* C16: the identity hash given to a new session equals the hash of another
\* snapshot exactly when the two snapshots supply the same component set: the
\* same components get the same hash, and a difference in any one component,
\* also between an absent component and one present with a false, zero or
\* empty value, gets a different hash.
HashSeparatesComponentSets ==
    [][\A req \in SnapshotRequests :
          CreateSession(req, now)
          => \A other \in SnapshotRequests :
                 (sessions'[nextId].analysis.fingerprint.fingerprint = HashOf(other))
                 <=> (SuppliedComponents(req) = SuppliedComponents(other))]_vars


Analyzers == {"automation", "behavior", "fingerprint", "network"}

\* C17: every result Evaluate returns for a stored session, on the first call
\* and on every repeated call, and also for a session with zero events,
\* carries a details entry for each of the four analyzers, each with the score
\* of that analyzer.
ResultDetailsComplete ==
    [][\A sessionId \in DOMAIN sessions :
          Evaluates(sessionId) /\ response'.code = 200
          => /\ "details" \in DOMAIN response'.result
             /\ \A analyzer \in Analyzers :
                   /\ analyzer \in DOMAIN response'.result.details
                   /\ response'.result.details[analyzer] # Null
                   /\ PercentScore(response'.result.details[analyzer].score)
             /\ response'.result.details.behavior.score
                    = sessions'[sessionId].analysis.behavior.score
             /\ response'.result.details.fingerprint.score
                    = sessions'[sessionId].analysis.fingerprint.score
             /\ response'.result.details.network.score
                    = sessions'[sessionId].analysis.network.score]_vars


\* the step is GetStatus on some session id
AsksStatus == \E sessionId \in SessionIds : GetStatus(sessionId, now)

\* C18: after CreateSession has stored a session, no step of RecordEvent,
\* Evaluate or GetStatus changes its telemetry snapshot, its creation time or
\* its cached automation, fingerprint and network records, and a GetStatus
\* step changes nothing of any session.
SnapshotImmutable ==
    [][/\ \A sessionId \in DOMAIN sessions \cap DOMAIN sessions' :
             /\ sessions'[sessionId].clientInfo = sessions[sessionId].clientInfo
             /\ sessions'[sessionId].createdAt = sessions[sessionId].createdAt
             /\ sessions'[sessionId].analysis.automation
                    = sessions[sessionId].analysis.automation
             /\ sessions'[sessionId].analysis.fingerprint
                    = sessions[sessionId].analysis.fingerprint
             /\ sessions'[sessionId].analysis.network
                    = sessions[sessionId].analysis.network
       /\ AsksStatus => sessions' = sessions]_vars

\* C18 witness: the status of a session was asked after it was created, took
\* events and was evaluated, and its creation time lies in the past
StatusAskedAfterEvaluation ==
    \E sessionId \in DOMAIN sessions :
        /\ Answered("status") /\ response.code = 200 /\ response.sessionId = sessionId
        /\ Len(sessions[sessionId].events) > 0
        /\ Evaluated(sessionId)
        /\ sessions[sessionId].analysis.behavior # Null
        /\ sessions[sessionId].createdAt < now
        /\ response.createdAt = sessions[sessionId].createdAt


\* what the checks of analyzeNetwork other than the geolocation add for req
DeltasBesideLookup(req) ==
    (IF checkProxyHeaders(req.headers).detected THEN 0 - 30 ELSE 0)
    + (IF checkDatacenterIP(getClientIp(req)) THEN 0 - 40 ELSE 0)
    + (IF checkVPN(getClientIp(req)) THEN 0 - 20 ELSE 0)
    + (IF checkHeaderConsistency(req.headers).consistent THEN 15 ELSE 0 - 15)
    + (IF req.cipher.present
       THEN (IF checkTLSFingerprint(req.cipher) # <<>> THEN 0 - 10 ELSE 10) ELSE 0)

\* req comes from a public address the geolocation database has no entry for
LookupFails(req) ==
    /\ TruthyStr(getClientIp(req))
    /\ ~isPrivateIP(getClientIp(req))
    /\ GeoLookup(getClientIp(req)) = NullStr

\* the record of a network analysis that ran every check after a failed lookup
CompletedWithoutGeo(network, req) ==
    /\ network.ipInfo = NullStr
    /\ network.ipTimezoneMatch
    /\ network.proxied = checkProxyHeaders(req.headers).detected
    /\ network.datacenterIP = checkDatacenterIP(getClientIp(req))
    /\ network.vpnDetected = checkVPN(getClientIp(req))

MissingBoth(clientInfo) ==
    ~TruthyStr(clientInfo.screenResolution) /\ ~TruthyStr(clientInfo.timezone)

MissingOne(clientInfo) ==
    ~TruthyStr(clientInfo.screenResolution) \/ ~TruthyStr(clientInfo.timezone)

\* the session with a screen resolution and a timezone in its snapshot
WithDeviceInfo(session) ==
    [session EXCEPT !.clientInfo.screenResolution = <<"2560", "x", "1440">>,
                    !.clientInfo.timezone = <<"America/", "New_York">>]

\* C20 as claimed: the aggregator applies the missing-device-info delta
\* exactly when the snapshot lacks both the screen resolution and the
\* timezone; a snapshot that has one of the two gets no such penalty.
DeviceInfoPenaltyNeedsBothMissing ==
    [][\A sessionId \in DOMAIN sessions :
          (/\ sessions[sessionId].status = "pending"
           /\ Evaluates(sessionId) /\ response'.code = 200)
          => (HasReason(response'.result, <<"missing device info">>)
              <=> MissingBoth(sessions[sessionId].clientInfo))]_vars

\* C20 amended: the aggregator applies the missing-device-info delta of -15
\* exactly when the snapshot lacks the screen resolution or the timezone (one
\* of them or both); only a snapshot that has both gets no such penalty.  The
\* result then has 15 points less than the same session would get with both
\* fields, unless a limit of [0, 100] is met.
DeviceInfoPenaltyWhenOneMissing ==
    [][\A sessionId \in DOMAIN sessions : \A req \in VerifyRequests :
          (/\ sessions[sessionId].status = "pending"
           /\ EvaluatesWith(sessionId, req) /\ response'.code = 200)
          => LET actual == response'.result
                 full   == verifySession(WithDeviceInfo(sessions'[sessionId]), req, now')
             IN  /\ HasReason(actual, <<"missing device info">>)
                        <=> MissingOne(sessions[sessionId].clientInfo)
                 /\ ~HasReason(full, <<"missing device info">>)
                 /\ (MissingOne(sessions[sessionId].clientInfo)
                     /\ full.twiceScore < 200 /\ actual.twiceScore > 0)
                        => actual.twiceScore = full.twiceScore - 30
                 /\ ~MissingOne(sessions[sessionId].clientInfo)
                        => actual.twiceScore = full.twiceScore]_vars

\* C20 witness: a session whose snapshot has a screen resolution and no
\* timezone was evaluated and got the missing-device-info reason
OneMissingPenalised ==
    \E sessionId \in DOMAIN sessions :
        /\ Evaluated(sessionId)
        /\ TruthyStr(sessions[sessionId].clientInfo.screenResolution)
        /\ ~TruthyStr(sessions[sessionId].clientInfo.timezone)
        /\ HasReason(firstResult[sessionId], <<"missing device info">>)
        /\ firstResult[sessionId].twiceScore \in 1..199


\* the server-side arrival times of the log have a coefficient of variation
\* below 0.1
ArrivalsRegular(events) ==
    /\ Len(events) >= 5
    /\ VariationBelow(Differences([i \in 1..Len(events) |-> events[i].timestamp]), 1, 10)

\* a click after the first event that no pointer move precedes
LaterClickBeforeAnyMove(events) ==
    /\ Len(events) >= 3
    /\ \E i \in 2..Len(events) :
          /\ events[i].type = "click"
          /\ \A j \in 1..(i - 1) : events[j].type # "mousemove"

\* the session with as many events, all pointer moves at growing intervals
WithCalmLog(session) ==
    [session EXCEPT !.events =
        [i \in 1..Len(session.events) |->
            [type |-> "mousemove", data |-> NoData, timestamp |-> i * i * 1000]]]

\* C21: when Evaluate decides a pending session whose log has both a
\* coefficient of variation of the event intervals below 0.1 and a click
\* without preceding pointer move, the aggregator applies -20 for each (-40
\* in total, unless a limit of [0, 100] is met) and the reasons hold both
\* explanations.
BothPatternPenaltiesApplied ==
    [][\A sessionId \in DOMAIN sessions : \A req \in VerifyRequests :
          (/\ sessions[sessionId].status = "pending"
           /\ ArrivalsRegular(sessions[sessionId].events)
           /\ LaterClickBeforeAnyMove(sessions[sessionId].events)
           /\ EvaluatesWith(sessionId, req) /\ response'.code = 200)
          => LET actual == response'.result
                 calm   == verifySession(WithCalmLog(sessions'[sessionId]), req, now')
             IN  /\ HasReason(actual, <<"abnormal request pattern: ">>
                                          \o <<"click without pointer move">>)
                 /\ HasReason(actual, <<"abnormal request pattern: ">>
                                          \o <<"event intervals too regular">>)
                 /\ (calm.twiceScore < 200 /\ actual.twiceScore > 0)
                        => actual.twiceScore = calm.twiceScore - 80]_vars


DefinitiveTools == {"WebDriver", "Selenium", "Puppeteer", "Playwright"}

NamesDefinitiveTool(automation) ==
    \E i \in 1..Len(automation.detectedTools) :
        automation.detectedTools[i] \in DefinitiveTools

AnalysedLog(sessionId) ==
    IF Len(sessions'[sessionId].events) > Len(sessions[sessionId].events)
    THEN sessions'[sessionId].events
    ELSE sessions[sessionId].events

\* the points of the sub-checks the record does not report as not natural
NaturalDeltas(behavior, events) ==
    (IF HasReason(behavior, "trajectory not natural") THEN 0 ELSE 30)
    + (IF HasReason(behavior, "click pattern not natural") THEN 0 ELSE 25)
    + (IF HasReason(behavior, "event timing not natural") THEN 0 ELSE 25)
    + (IF Len(OfType(events, "keypress")) = 0 \/ HasReason(behavior, "keystrokes not natural")
       THEN 0 ELSE 20)

\* C23: a behavior analysis of a log with fewer than 5 pointer moves returns
\* isHuman false and score 0 whatever the other events are; for a log with at
\* least 5 pointer moves the score is the sum of the deltas of the natural
\* sub-checks (30 trajectory, 25 click, 25 timing, 20 keystroke) and isHuman
\* is true exactly when that sum is at least 50.
BehaviorScoreIsSumOfDeltas ==
    [][\A sessionId \in DOMAIN sessions :
          AnalysesBehavior(sessionId)
          => LET behavior == sessions'[sessionId].analysis.behavior
                 events   == AnalysedLog(sessionId)
             IN  IF Len(OfType(events, "mousemove")) < 5
                 THEN behavior.score = 0 /\ ~behavior.isHuman
                 ELSE /\ behavior.score = NaturalDeltas(behavior, events)
                      /\ behavior.isHuman <=> behavior.score >= 50]_vars

\* C23 witness: five pointer moves with five clicks were analysed; the click
\* pattern and the timing were natural, the trajectory was not, and the sum
\* of exactly 50 counts as human
HumanAtFifty ==
    \E sessionId \in DOMAIN sessions :
        /\ sessions[sessionId].analysis.behavior # Null
        /\ Len(OfType(sessions[sessionId].events, "mousemove")) >= 5
        /\ Len(OfType(sessions[sessionId].events, "click")) >= 2
        /\ sessions[sessionId].analysis.behavior.score = 50
        /\ sessions[sessionId].analysis.behavior.isHuman
        /\ HasReason(sessions[sessionId].analysis.behavior, "trajectory not natural")


\* a pointer move less than 1000 ms before the click
PrecededByMove(events, click) ==
    \E j \in 1..Len(events) :
        /\ events[j].type = "mousemove"
        /\ EventTime(events[j]) < EventTime(click)
        /\ EventTime(click) - EventTime(events[j]) < 1000

\* C24: the click sub-check is natural whenever the mean interval between
\* the clicks is above 500 ms and at least 70% of the clicks are preceded
\* within 1000 ms by a pointer move, also when exactly 70% are.
ClicksNaturalFromSeventyPercent ==
    (response # Null /\ response.op = "analyzeClickPattern")
    => LET events   == response.events
           clicks   == OfType(events, "click")
           n        == Len(clicks)
           preceded == Cardinality({i \in 1..n : PrecededByMove(events, clicks[i])})
       IN  (/\ n >= 2
            /\ EventTime(clicks[n]) - EventTime(clicks[1]) > 500 * (n - 1)
            /\ 10 * preceded >= 7 * n)
           => response.result.isNatural


-----------------------------------------------------------------------------
(* C25 *)

\* the first entry of each forwarded-for text, read off the text by hand
FirstEntry(forwardedFor) ==
    CASE forwardedFor = <<"10.0.0.7">> -> <<"10.0.0.7">>
      [] forwardedFor = <<"8.8.8.8">> -> <<"8.8.8.8">>
      [] forwardedFor = <<" ", "192.168.1.5", " ", ",", "8.8.8.8">> -> <<"192.168.1.5">>
      [] forwardedFor = <<"81.2.69.142", ",", " ", "10.0.0.7">> -> <<"81.2.69.142">>
      [] forwardedFor = <<"127.0.0.1", ",", " ", "52.1.2.3", ",", " ", "8.8.8.8">>
           -> <<"127.0.0.1">>

PrivateOrLoopback == {<<"127.0.0.1">>, <<"192.168.1.5">>, <<"10.0.0.7">>, <<"::1">>}

\* the address the precedence of the headers selects for a request
SelectedAddress(req) ==
    LET forwardedFor == Header(req.headers, "x-forwarded-for")
        realIp       == Header(req.headers, "x-real-ip")
    IN  IF TruthyStr(forwardedFor) THEN FirstEntry(forwardedFor)
        ELSE IF TruthyStr(realIp) THEN realIp
        ELSE req.remoteAddress

-----------------------------------------------------------------------------
(* C26 *)

\* C26: in every reachable state a session carries a non-empty rejection
\* reason exactly when its status is rejected; pending and verified sessions
\* carry none.
ReasonIffRejected ==
    \A sessionId \in DOMAIN sessions :
        TruthyStr(sessions[sessionId].rejectionReason)
            <=> sessions[sessionId].status = "rejected"

\* a session the evaluation rejected: it carries the joined reasons of the
\* aggregator and its score
RejectedByEvaluationWithReason ==
    \E sessionId \in DOMAIN sessions :
        /\ sessions[sessionId].status = "rejected"
        /\ sessions[sessionId].verificationScore # NullNum
        /\ Len(sessions[sessionId].events) >= 5
        /\ TruthyStr(sessions[sessionId].rejectionReason)
        /\ sessionId \in DOMAIN firstResult
        /\ sessions[sessionId].rejectionReason
             = Join(firstResult[sessionId].reasons, <<", ">>)


-----------------------------------------------------------------------------
(* C27 *)

\* the session was rejected by the threshold branch of RecordEvent
RejectedByRecordEvent(session) ==
    session.status = "rejected" /\ session.rejectionReason = <<"bot-like behavior">>

\* the step records the tenth event of a session that no Evaluate has reached
\* and whose ten events hold fewer than five pointer moves
TenthEventFewMoves(sessionId) ==
    /\ sessionId \in DOMAIN sessions
    /\ sessions[sessionId].verifiedAt = NullNum
    /\ behaviorRuns[sessionId] = 0
    /\ Len(sessions[sessionId].events) = BehaviorThreshold - 1
    /\ response'.op = "event"
    /\ sessionId \in DOMAIN sessions'
    /\ Len(sessions'[sessionId].events) = BehaviorThreshold
    /\ Len(OfType(sessions'[sessionId].events, "mousemove")) < 5

-----------------------------------------------------------------------------
(* C28 *)

\* C28: when Evaluate runs the aggregator on a pending session, the behavior
\* record the aggregator sees is absent exactly when the event log is empty;
\* so the reason 'too few interaction events' (-20) appears only together with
\* 'no interaction events' (-30), and never for a session holding 1 to 4 events.
TooFewEventsOnlyWithoutEvents ==
    [][\A sessionId \in DOMAIN sessions :
          (/\ sessions[sessionId].status = "pending"
           /\ Evaluates(sessionId)
           /\ response'.code = 200)
          => /\ sessions'[sessionId].analysis.behavior = Null
                  <=> Len(sessions[sessionId].events) = 0
             /\ HasReason(response'.result, <<"too few interaction events">>)
                  => /\ HasReason(response'.result, <<"no interaction events">>)
                     /\ Len(sessions[sessionId].events) = 0
             /\ Len(sessions[sessionId].events) \in 1..4
                  => ~HasReason(response'.result, <<"too few interaction events">>)]_vars

\* an evaluation of a session holding 1 to 4 events: the behavior record was
\* computed for it and the reasons do not mention too few events
FewEventsEvaluated ==
    \E sessionId \in DOMAIN sessions :
        /\ response # Null /\ response.op = "verify" /\ response.code = 200
        /\ response.sessionId = sessionId
        /\ firstResult[sessionId] # Null
        /\ response.result = firstResult[sessionId]
        /\ Len(sessions[sessionId].events) \in 1..4
        /\ sessions[sessionId].analysis.behavior # Null
        /\ ~HasReason(firstResult[sessionId], <<"too few interaction events">>)


-----------------------------------------------------------------------------
(* C29 *)

\* C29: an SDK instance invokes the onVerified callback at most once, for
\* every interleaving of its event requests, the auto-verify timer and the
\* page's calls of verify().
OnVerifiedAtMostOnce ==
    sdk # Null => sdk.onVerified <= 1


-----------------------------------------------------------------------------
(* C30 *)

ToolNames == {"WebDriver", "Selenium", "Puppeteer", "Playwright", "Unknown Automation"}

\* the session was rejected by CreateSession: no event and no evaluation since
RejectedAtCreation(session) ==
    /\ session.status = "rejected"
    /\ session.verifiedAt = NullNum
    /\ Len(session.events) = 0

NamesATool(reason) ==
    /\ TruthyStr(reason)
    /\ reason[1] = "automation tool detected: "
    /\ \E i \in 2..Len(reason) : reason[i] \in ToolNames

\* C30: whenever automation detection returned isAutomated = true it listed at
\* least one tool, each a named tool or 'Unknown Automation'; and the
\* rejection reason CreateSession builds names at least one tool.
AutomatedNamesATool ==
    \A sessionId \in DOMAIN sessions :
        LET session == sessions[sessionId]
            automation == session.analysis.automation
        IN  /\ automation.isAutomated
               => /\ automation.detectedTools # <<>>
                  /\ \A i \in 1..Len(automation.detectedTools) :
                        automation.detectedTools[i] \in ToolNames
            /\ RejectedAtCreation(session) => NamesATool(session.rejectionReason)

\* a session rejected at its creation whose reason names Puppeteer
RejectionNamesPuppeteer ==
    \E sessionId \in DOMAIN sessions :
        /\ RejectedAtCreation(sessions[sessionId])
        /\ sessions[sessionId].analysis.automation.isAutomated
        /\ sessions[sessionId].rejectionReason[2] = "Puppeteer"
        /\ response # Null /\ response.op = "init"
        /\ response.rejectionReason = sessions[sessionId].rejectionReason

=============================================================================
